---------------------------- MODULE Spec2Model ----------------------------
(***************************************************************************)
(* Expense-report lifecycle of medlaunch-challenge: the in-memory report   *)
(* store, the report controller's create and update handlers, the budget   *)
(* gate and the optimistic version check.                                  *)
(*                                                                         *)
(* The repository holds two generations of the controller:                 *)
(*  - the promise-based one (controller over InMemoryReportRepository with *)
(*    async findById/update and a compare-and-swap in update), whose       *)
(*    update handler suspends at `await repo.findById(id)`: specification  *)
(*    Spec;                                                                *)
(*  - the synchronous one (controller over models/report updateReport and  *)
(*    a JobQueueService that runs UPDATE_REPORT_VIEW inside enqueue):      *)
(*    specification SpecJobs.                                              *)
(*                                                                         *)
(* An optional value (a field that may be undefined) is a sequence of      *)
(* length 0 or 1. The JSON value of budgetOverride is one of "true",       *)
(* "false" and "1": the two booleans and a value that is truthy without    *)
(* being the boolean true (the body is not validated).                     *)
(***************************************************************************)
EXTENDS Integers, Sequences, FiniteSets, TLC

VARIABLES
  store,  \* the report repository: id -> report
  now,    \* the clock read by new Date(): ticks at every successful write
  calls,  \* the update handlers suspended at `await repo.findById(id)`
  ops,    \* handler invocations so far
  last,   \* the response being sent, with the request, what the handler
          \* loaded (existing), the stored report before (prev) and after
          \* (stored) its final step, and whether that step wrote
  log,    \* the successful updates in order: report, version presented,
          \* version found in the store, invocation
  jobs    \* the calls of JobQueueService.enqueue in order, each with the
          \* job's payload and whether the call failed

vars == <<store, now, calls, ops, last, log, jobs>>

---------------------------------------------------------------------------
(* Bounds of the model *)

\* handler invocations explored in one behaviour
MaxOps == 2
\* update handlers that may be suspended at the same time
MaxCalls == 2

---------------------------------------------------------------------------
(* Optional values *)

None == <<>>
Some(v) == <<v>>
IsSome(o) == o # <<>>
\* a ?? b
Coalesce(o, d) == IF o # <<>> THEN o[1] ELSE d

---------------------------------------------------------------------------
(* JavaScript values of budgetOverride *)

\* v === true
StrictTrue(v) == v = "true"
\* the truthiness of v: what !!v and the negation of !v are
Truthy(v) == v \in {"true", "1"}
\* !!v
ToBoolean(v) == IF Truthy(v) THEN "true" ELSE "false"

---------------------------------------------------------------------------
(* Users and reports seeded by the repositories *)

Users == {"admin1", "user1", "user2"}

Role(u) == IF u = "admin1" THEN "ADMIN" ELSE "USER"

\* an entry with its amount, incurred now; incurredAt is optional
Entry(a) == [amount |-> a, incurredAt |-> Some(0)]

\* a.incurredAt ? Date.parse(a.incurredAt) : 0
DateKey(e) == IF IsSome(e.incurredAt) THEN e.incurredAt[1] ELSE 0

\* a comment as addComment builds it (id and priority left out)
Comment(author, text, t) == [authorId |-> author, text |-> text, createdAt |-> t]

\* an attachment record as uploadAttachment builds it (id, filename and
\* storagePath left out)
Attachment(owner, file, t) ==
  [owner |-> owner, mimetype |-> file.mimetype, size |-> file.size, uploadedAt |-> t]

\* { userId, access } in report.viewers
Viewer(u, access) == [userId |-> u, access |-> access]

SeedReports ==
  (1 :> [id |-> 1, ownerId |-> "user1", status |-> "DRAFT", budgetCap |-> 2000,
         budgetOverride |-> "false", entries |-> <<Entry(600), Entry(800), Entry(300)>>,
         viewers |-> <<Viewer("user2", "VIEW")>>,
         comments |-> <<Comment("user1", "seed", 0)>>, attachments |-> <<>>,
         version |-> 1, createdAt |-> 0, updatedAt |-> 0, metrics |-> None,
         metadata |-> Some("seed")])
  @@
  (2 :> [id |-> 2, ownerId |-> "admin1", status |-> "SUBMITTED", budgetCap |-> 1000,
         budgetOverride |-> "false", entries |-> <<Entry(700), Entry(600)>>,
         viewers |-> <<Viewer("user2", "VIEW")>>,
         comments |-> <<Comment("admin1", "seed", 0)>>, attachments |-> <<>>,
         version |-> 1, createdAt |-> 0, updatedAt |-> 0, metrics |-> None,
         metadata |-> Some("seed")])
  @@
  (3 :> [id |-> 3, ownerId |-> "user2", status |-> "APPROVED", budgetCap |-> 5000,
         budgetOverride |-> "false", entries |-> <<Entry(3200)>>,
         viewers |-> <<Viewer("user2", "VIEW")>>,
         comments |-> <<Comment("user2", "seed", 0)>>, attachments |-> <<>>,
         version |-> 1, createdAt |-> 0, updatedAt |-> 0, metrics |-> None,
         metadata |-> Some("seed")])

\* randomUUID(): an id no stored report has
FreshId(st) == Cardinality(DOMAIN st) + 1

\* repo.findById(id) / getReportById(id)
findById(st, id) == IF id \in DOMAIN st THEN Some(st[id]) ELSE None

---------------------------------------------------------------------------
(* Pure helpers *)

RECURSIVE SumAmounts(_)
SumAmounts(es) == IF es = <<>> THEN 0 ELSE es[1].amount + SumAmounts(Tail(es))

\* computeTotalAmount(report): the reduce over report.entries
computeTotalAmount(report) == SumAmounts(report.entries)

\* entries.slice().sort((a, b) => da - db): a stable sort by incurredAt
RECURSIVE InsertByDate(_, _)
InsertByDate(e, sorted) ==
  IF sorted = <<>> THEN <<e>>
  ELSE IF DateKey(e) - DateKey(sorted[1]) < 0 THEN <<e>> \o sorted
  ELSE <<sorted[1]>> \o InsertByDate(e, Tail(sorted))

RECURSIVE SortByDate(_)
SortByDate(es) ==
  IF es = <<>> THEN <<>>
  ELSE InsertByDate(es[Len(es)], SortByDate(SubSeq(es, 1, Len(es) - 1)))

\* a trend that compares the last two entries in insertion order
Trend_InsertionOrder(es) ==
  LET n == Len(es)
  IN IF n < 2 THEN "unknown"
     ELSE IF es[n].amount > es[n - 1].amount THEN "increasing"
     ELSE IF es[n].amount < es[n - 1].amount THEN "decreasing"
     ELSE "stable"

\* trend: the last two entries by incurredAt compared
Trend(es) ==
  LET entriesSortedByDate == SortByDate(es)
      n == Len(entriesSortedByDate)
  IN IF n < 2 THEN "unknown"
     ELSE IF entriesSortedByDate[n].amount > entriesSortedByDate[n - 1].amount
       THEN "increasing"
     ELSE IF entriesSortedByDate[n].amount < entriesSortedByDate[n - 1].amount
       THEN "decreasing"
     ELSE "stable"

\* the ReportView computed by updateReportView; averageEntry is the exact
\* quotient <<numerator, denominator>>
ReportMetrics(report) ==
  LET totalAmount == SumAmounts(report.entries)
      entryCount == Len(report.entries)
  IN [totalAmount |-> totalAmount,
      isOverBudget |-> totalAmount > report.budgetCap /\ ~Truthy(report.budgetOverride),
      entryCount |-> entryCount,
      averageEntry |-> IF entryCount # 0 THEN <<totalAmount, entryCount>> ELSE <<0, 1>>,
      trend |-> Trend(report.entries)]

---------------------------------------------------------------------------
(* The view shaper: services/reportService toReportView *)

\* the options toReportView reads (include, compact, entriesPage,
\* entriesSize, entriesSort, entriesMinAmount) and the two getReport sets
\* from the query without toReportView reading them (offset, limit)
NoOptions ==
  [include |-> None, compact |-> FALSE, offset |-> None, limit |-> None,
   entriesPage |-> None, entriesSize |-> None, entriesSort |-> None,
   entriesMinAmount |-> None]

\* options.include || ['entries', 'comments', 'metadata', 'metrics']
IncludeSet(options) ==
  Coalesce(options.include, {"entries", "comments", "metadata", "metrics"})

Max(a, b) == IF a >= b THEN a ELSE b
Min(a, b) == IF a <= b THEN a ELSE b

\* arr.slice(start, end) for 0 <= start
Slice(arr, start, end) == SubSeq(arr, start + 1, Min(end, Len(arr)))

\* a paginate that reports the length of the page as total
paginate_TotalOfPage(arr, page, size) ==
  LET p == Max(1, page)
      sz == Max(1, size)
      start == (p - 1) * sz
      items == Slice(arr, start, start + sz)
  IN [items |-> items, page |-> p, size |-> sz, total |-> Len(items)]

\* paginate with the page and the size taken as given
paginate_Unclamped(arr, page, size) ==
  LET total == Len(arr)
      start == (page - 1) * size
  IN [items |-> Slice(arr, start, start + size), page |-> page, size |-> size,
      total |-> total]

\* paginate(arr, page, size)
paginate(arr, page, size) ==
  LET total == Len(arr)
      p == Max(1, page)
      sz == Max(1, size)
      start == (p - 1) * sz
  IN [items |-> Slice(arr, start, start + sz), page |-> p, size |-> sz,
      total |-> total]

\* entries.filter((e) => e.amount >= (options.entriesMinAmount || 0)), applied
\* when options.entriesMinAmount is defined
RECURSIVE FilterMin(_, _)
FilterMin(es, m) ==
  IF es = <<>> THEN <<>>
  ELSE IF es[1].amount >= m THEN <<es[1]>> \o FilterMin(Tail(es), m)
  ELSE FilterMin(Tail(es), m)

\* a comparator that puts the later of two entries with equal keys first
Precedes_TiesReversed(a, b, entriesSort) ==
  CASE entriesSort = "amount_desc" -> b.amount - a.amount <= 0
    [] entriesSort = "amount_asc" -> a.amount - b.amount <= 0
    [] entriesSort = "date_desc" -> DateKey(b) - DateKey(a) <= 0
    [] entriesSort = "date_asc" -> DateKey(a) - DateKey(b) <= 0
    [] OTHER -> FALSE

\* the comparator of entriesSort is negative on (a, b)
Precedes(a, b, entriesSort) ==
  CASE entriesSort = "amount_desc" -> b.amount - a.amount < 0
    [] entriesSort = "amount_asc" -> a.amount - b.amount < 0
    [] entriesSort = "date_desc" -> DateKey(b) - DateKey(a) < 0
    [] entriesSort = "date_asc" -> DateKey(a) - DateKey(b) < 0
    [] OTHER -> FALSE

\* entries.sort(comparator): Array.prototype.sort is stable
RECURSIVE InsertSorted(_, _, _)
InsertSorted(e, sorted, entriesSort) ==
  IF sorted = <<>> THEN <<e>>
  ELSE IF Precedes(e, sorted[1], entriesSort) THEN <<e>> \o sorted
  ELSE <<sorted[1]>> \o InsertSorted(e, Tail(sorted), entriesSort)

RECURSIVE SortEntries(_, _)
SortEntries(es, entriesSort) ==
  IF es = <<>> THEN <<>>
  ELSE InsertSorted(es[Len(es)], SortEntries(SubSeq(es, 1, Len(es) - 1), entriesSort),
                    entriesSort)

\* toReportView: the entries after the entriesMinAmount filter and the
\* entriesSort ordering
ProcessEntries(report, options) ==
  LET filtered == IF IsSome(options.entriesMinAmount)
                    THEN FilterMin(report.entries, options.entriesMinAmount[1])
                    ELSE report.entries
  IN IF IsSome(options.entriesSort)
       THEN SortEntries(filtered, options.entriesSort[1])
       ELSE filtered

\* metrics taken from the ones stored on the report when it has any
ViewMetrics_Persisted(report) ==
  IF IsSome(report.metrics) THEN report.metrics[1]
  ELSE LET totalAmount == computeTotalAmount(report)
           entryCount == Len(report.entries)
       IN [totalAmount |-> totalAmount,
           isOverBudget |-> totalAmount > report.budgetCap,
           entryCount |-> entryCount,
           averageEntry |-> IF entryCount # 0 THEN <<totalAmount, entryCount>>
                            ELSE <<0, 1>>,
           trend |-> Trend(report.entries)]

\* the metrics toReportView computes at read time; isOverBudget does not
\* look at budgetOverride
ViewMetrics(report) ==
  LET totalAmount == computeTotalAmount(report)
      entryCount == Len(report.entries)
  IN [totalAmount |-> totalAmount,
      isOverBudget |-> totalAmount > report.budgetCap,
      entryCount |-> entryCount,
      averageEntry |-> IF entryCount # 0 THEN <<totalAmount, entryCount>> ELSE <<0, 1>>,
      trend |-> Trend(report.entries)]

\* report.metadata || {}
MetadataOf(report) == Coalesce(report.metadata, "{}")

\* a summary that still carries the report's collections
CompactView_WithCollections(report, metrics) ==
  [compact |-> TRUE, id |-> report.id, ownerId |-> report.ownerId,
   status |-> report.status, version |-> None,
   totalAmount |-> metrics.totalAmount, isOverBudget |-> metrics.isOverBudget,
   entryCount |-> Some(metrics.entryCount),
   averageEntry |-> Some(metrics.averageEntry),
   trend |-> Some(metrics.trend),
   metadataSummary |-> Some(MetadataOf(report)),
   metrics |-> None, entries |-> Some(report.entries),
   comments |-> Some(report.comments), metadata |-> None,
   viewers |-> Some(report.viewers), attachments |-> Some(report.attachments),
   entriesPagination |-> None]

\* if (options.compact) return { id, ..., metadataSummary }: the flat
\* summary; a field the answer does not carry is None
CompactView(report, metrics) ==
  [compact |-> TRUE, id |-> report.id, ownerId |-> report.ownerId,
   status |-> report.status, version |-> None,
   totalAmount |-> metrics.totalAmount, isOverBudget |-> metrics.isOverBudget,
   entryCount |-> Some(metrics.entryCount),
   averageEntry |-> Some(metrics.averageEntry),
   trend |-> Some(metrics.trend),
   metadataSummary |-> Some(MetadataOf(report)),
   metrics |-> None, entries |-> None, comments |-> None, metadata |-> None,
   viewers |-> None, attachments |-> None, entriesPagination |-> None]

\* the rich view: { ...report, totalAmount, isOverBudget, metrics }, then
\* the sections entries, comments and metadata kept or deleted by include,
\* and the pagination metadata of the entries
RichView(report, metrics, include, entriesPageResult) ==
  [compact |-> FALSE, id |-> report.id, ownerId |-> report.ownerId,
   status |-> report.status, version |-> Some(report.version),
   totalAmount |-> metrics.totalAmount, isOverBudget |-> metrics.isOverBudget,
   entryCount |-> None, averageEntry |-> None, trend |-> None,
   metadataSummary |-> None,
   metrics |-> Some(metrics),
   entries |-> IF "entries" \in include THEN Some(entriesPageResult.items) ELSE None,
   comments |-> IF "comments" \in include THEN Some(report.comments) ELSE None,
   metadata |-> IF "metadata" \in include THEN Some(MetadataOf(report)) ELSE None,
   viewers |-> Some(report.viewers),
   attachments |-> Some(report.attachments),
   entriesPagination |->
     IF "entries" \in include
       THEN Some([page |-> entriesPageResult.page, size |-> entriesPageResult.size,
                  total |-> entriesPageResult.total])
       ELSE None]

\* the report object after a toReportView that filters and sorts
\* report.entries itself
StoredAfterView_SortedInPlace(report, options) ==
  [report EXCEPT !.entries = ProcessEntries(report, options)]

\* the report object passed to toReportView, after the call: the filter and
\* both sorts run on (report.entries || []).slice(), the sections are set
\* and deleted on the copy { ...report }, and nothing is assigned to report
StoredAfterView(report, options) == report

\* toReportView(report, opts): the compact summary, or the rich view with
\* the sections of include
toReportView(report, options) ==
  LET include == IncludeSet(options)
      metrics == ViewMetrics(report)
      entries == ProcessEntries(report, options)
      page == Coalesce(options.entriesPage, 1)
      size == Coalesce(options.entriesSize, 25)
      entriesPageResult == paginate(entries, page, size)
  IN IF options.compact THEN CompactView(report, metrics)
     ELSE RichView(report, metrics, include, entriesPageResult)

---------------------------------------------------------------------------
(* The store: InMemoryReportRepository *)

\* payload.viewers as an array: of user ids (ofStrings) or of { userId,
\* access } objects
ViewersPayload(ofStrings, items) == [ofStrings |-> ofStrings, items |-> items]

\* viewersNormalized: an array of strings becomes VIEW grants, an array of
\* objects is taken as it is
NormalizeViewers(v) ==
  IF Len(v.items) > 0 /\ v.ofStrings
    THEN [i \in DOMAIN v.items |-> Viewer(v.items[i], "VIEW")]
    ELSE v.items

\* the empty Partial<Report>: {}
NoUpdate ==
  [status |-> None, entries |-> None, budgetCap |-> None, budgetOverride |-> None,
   ownerId |-> None, viewers |-> None, comments |-> None, attachments |-> None]

\* Merge with the version field copied from existing instead of incremented
Merge_KeepVersion(existing, updated, t) ==
  [existing EXCEPT
     !.status = Coalesce(updated.status, @),
     !.entries = Coalesce(updated.entries, @),
     !.budgetCap = Coalesce(updated.budgetCap, @),
     !.budgetOverride = Coalesce(updated.budgetOverride, @),
     !.ownerId = Coalesce(updated.ownerId, @),
     !.viewers = Coalesce(updated.viewers, @),
     !.comments = Coalesce(updated.comments, @),
     !.attachments = Coalesce(updated.attachments, @),
     !.updatedAt = t]

\* { ...existing, ...updated, version: existing.version + 1, updatedAt: now }
Merge(existing, updated, t) ==
  [existing EXCEPT
     !.status = Coalesce(updated.status, @),
     !.entries = Coalesce(updated.entries, @),
     !.budgetCap = Coalesce(updated.budgetCap, @),
     !.budgetOverride = Coalesce(updated.budgetOverride, @),
     !.ownerId = Coalesce(updated.ownerId, @),
     !.viewers = Coalesce(updated.viewers, @),
     !.comments = Coalesce(updated.comments, @),
     !.attachments = Coalesce(updated.attachments, @),
     !.version = existing.version + 1,
     !.updatedAt = t]

\* a store that never throws VERSION_MISMATCH
VersionMismatch_Never(existing, expectedVersion) == FALSE

\* if (expectedVersion !== undefined && expectedVersion !== existing.version) throw
VersionMismatch(existing, expectedVersion) ==
  IsSome(expectedVersion) /\ expectedVersion[1] # existing.version

\* an update that stamps updatedAt before it compares the versions
RepoUpdate_TouchFirst(st, id, updated, expectedVersion, t) ==
  IF id \notin DOMAIN st
    THEN [err |-> "NotFound", store |-> st, result |-> None]
  ELSE IF VersionMismatch(st[id], expectedVersion)
    THEN [err |-> "VERSION_MISMATCH",
          store |-> [st EXCEPT ![id].updatedAt = t], result |-> None]
  ELSE LET merged == Merge(st[id], updated, t)
       IN [err |-> "none", store |-> [st EXCEPT ![id] = merged],
           result |-> Some(merged)]

\* InMemoryReportRepository.update(id, updated, expectedVersion) at time t:
\* the error thrown ("none" when it returns), the store it leaves and the
\* report it returns.
RepoUpdate(st, id, updated, expectedVersion, t) ==
  IF id \notin DOMAIN st
    THEN [err |-> "NotFound", store |-> st, result |-> None]
  ELSE IF VersionMismatch(st[id], expectedVersion)
    THEN [err |-> "VERSION_MISMATCH", store |-> st, result |-> None]
  ELSE LET merged == Merge(st[id], updated, t)
       IN [err |-> "none", store |-> [st EXCEPT ![id] = merged],
           result |-> Some(merged)]

\* a createReport that ignores the requested status
NewReport_AlwaysDraft(st, req, ownerId, t) ==
  [id |-> FreshId(st), ownerId |-> ownerId,
   status |-> "DRAFT",
   budgetCap |-> req.budgetCap[1],
   budgetOverride |-> ToBoolean(Coalesce(req.budgetOverride, "false")),
   entries |-> Coalesce(req.entries, <<>>),
   viewers |-> IF IsSome(req.viewers) THEN NormalizeViewers(req.viewers[1]) ELSE <<>>,
   comments |-> <<>>, attachments |-> <<>>,
   version |-> 1, createdAt |-> t, updatedAt |-> t, metrics |-> None,
   metadata |-> None]

\* models/report createReport: the record built and added to the store
NewReport(st, req, ownerId, t) ==
  [id |-> FreshId(st), ownerId |-> ownerId,
   status |-> Coalesce(req.status, "DRAFT"),
   budgetCap |-> req.budgetCap[1],
   budgetOverride |-> ToBoolean(Coalesce(req.budgetOverride, "false")),
   entries |-> Coalesce(req.entries, <<>>),
   viewers |-> IF IsSome(req.viewers) THEN NormalizeViewers(req.viewers[1]) ELSE <<>>,
   comments |-> <<>>, attachments |-> <<>>,
   version |-> 1, createdAt |-> t, updatedAt |-> t, metrics |-> None,
   metadata |-> None]

---------------------------------------------------------------------------
(* The controller's checks *)

\* a handler without the ownership check
OwnershipDenied_Never(existing, caller) == FALSE

\* Role checks: USER can only update their own reports
OwnershipDenied(existing, caller) ==
  Role(caller) = "USER" /\ existing.ownerId # caller

\* Only ADMIN may set budgetOverride to true
OverrideDenied(req, caller) ==
  IsSome(req.budgetOverride) /\ StrictTrue(req.budgetOverride[1])
  /\ Role(caller) # "ADMIN"

\* expected version from the If-Match header, else from body.version
ExpectedVersion(ifMatch, bodyVersion) ==
  IF IsSome(ifMatch) THEN ifMatch ELSE bodyVersion

\* a handler that lets every caller change ownerId
OwnerChangeDenied_Never(req, caller) == FALSE

\* Only ADMIN may change ownerId
OwnerChangeDenied(req, caller) ==
  IsSome(req.ownerId) /\ Role(caller) # "ADMIN"

\* a partial update that also takes the comments of the payload
Whitelist_WholeBody(req) ==
  [NoUpdate EXCEPT !.status = req.status, !.entries = req.entries,
                   !.budgetCap = req.budgetCap,
                   !.budgetOverride = req.budgetOverride,
                   !.viewers = IF IsSome(req.viewers)
                                 THEN Some(NormalizeViewers(req.viewers[1]))
                                 ELSE None,
                   !.ownerId = req.ownerId,
                   !.comments = req.comments]

\* the partial update built from the whitelisted fields of the payload
Whitelist(req) ==
  [NoUpdate EXCEPT !.status = req.status, !.entries = req.entries,
                   !.budgetCap = req.budgetCap,
                   !.budgetOverride = req.budgetOverride,
                   !.viewers = IF IsSome(req.viewers)
                                 THEN Some(NormalizeViewers(req.viewers[1]))
                                 ELSE None,
                   !.ownerId = req.ownerId]

\* a gate that looks at the requested status only
willChangeToSubmitted_AnyStatus(existing, updated) ==
  updated.status = Some("SUBMITTED")

willChangeToSubmitted(existing, updated) ==
  existing.status = "DRAFT" /\ updated.status = Some("SUBMITTED")

\* a gate that compares the total with the stored cap
GateDenies_StoredCap(existing, updated) ==
  LET entriesToCheck == Coalesce(updated.entries, existing.entries)
      overrideToCheck == Coalesce(updated.budgetOverride, existing.budgetOverride)
      total == computeTotalAmount([existing EXCEPT !.entries = entriesToCheck])
  IN total > existing.budgetCap /\ ~Truthy(overrideToCheck)

\* Strict Budget Gate on update: total > budgetCapToCheck && !overrideToCheck
GateDenies(existing, updated) ==
  LET entriesToCheck == Coalesce(updated.entries, existing.entries)
      budgetCapToCheck == Coalesce(updated.budgetCap, existing.budgetCap)
      overrideToCheck == Coalesce(updated.budgetOverride, existing.budgetOverride)
      total == computeTotalAmount([existing EXCEPT !.entries = entriesToCheck])
  IN total > budgetCapToCheck /\ ~Truthy(overrideToCheck)

\* the checks without the test for an absent expected version
UpdateChecks_NoVersionTest(existing, caller, req, expectedVersion) ==
  IF ~IsSome(existing) THEN "NotFound"
  ELSE IF OwnershipDenied(existing[1], caller) THEN "Forbidden"
  ELSE IF OverrideDenied(req, caller) THEN "Forbidden"
  ELSE IF OwnerChangeDenied(req, caller) THEN "Forbidden"
  ELSE IF willChangeToSubmitted(existing[1], Whitelist(req))
          /\ GateDenies(existing[1], Whitelist(req)) THEN "BudgetExceeded"
  ELSE "pass"

\* updateReport up to the store call: the failure returned, or "pass"
\* checks that also refuse a status other than the next one of the
\* workflow
UpdateChecks_NextStatusOnly(existing, caller, req, expectedVersion) ==
  IF ~IsSome(existing) THEN "NotFound"
  ELSE IF OwnershipDenied(existing[1], caller) THEN "Forbidden"
  ELSE IF OverrideDenied(req, caller) THEN "Forbidden"
  ELSE IF ~IsSome(expectedVersion) THEN "MissingVersion"
  ELSE IF OwnerChangeDenied(req, caller) THEN "Forbidden"
  ELSE IF IsSome(req.status)
          /\ <<existing[1].status, req.status[1]>>
               \notin {<<"DRAFT", "SUBMITTED">>, <<"SUBMITTED", "APPROVED">>,
                        <<"SUBMITTED", "REJECTED">>}
    THEN "InvalidTransition"
  ELSE IF willChangeToSubmitted(existing[1], Whitelist(req))
          /\ GateDenies(existing[1], Whitelist(req)) THEN "BudgetExceeded"
  ELSE "pass"

UpdateChecks(existing, caller, req, expectedVersion) ==
  IF ~IsSome(existing) THEN "NotFound"
  ELSE IF OwnershipDenied(existing[1], caller) THEN "Forbidden"
  ELSE IF OverrideDenied(req, caller) THEN "Forbidden"
  ELSE IF ~IsSome(expectedVersion) THEN "MissingVersion"
  ELSE IF OwnerChangeDenied(req, caller) THEN "Forbidden"
  ELSE IF willChangeToSubmitted(existing[1], Whitelist(req))
          /\ GateDenies(existing[1], Whitelist(req)) THEN "BudgetExceeded"
  ELSE "pass"

\* createReport: ownerId = payload.ownerId, else the authenticated user
CreateOwner(req, caller) == Coalesce(req.ownerId, caller)

\* Strict Budget Gate on create
CreateGateDenies(req) ==
  LET initialEntries == Coalesce(req.entries, <<>>)
      initialTotal == computeTotalAmount([entries |-> initialEntries])
      initialBudgetOverride == ToBoolean(Coalesce(req.budgetOverride, "false"))
  IN req.status = Some("SUBMITTED") /\ initialTotal > req.budgetCap[1]
     /\ ~Truthy(initialBudgetOverride)

\* createReport up to the model call: the failure returned, or "pass"
\* checks of createReport without the role test on ownerId
CreateChecks_AnyOwner(req, caller) ==
  IF ~IsSome(req.title) \/ ~IsSome(req.budgetCap) THEN "BadRequest"
  ELSE IF OverrideDenied(req, caller) THEN "Forbidden"
  ELSE IF CreateGateDenies(req) THEN "BudgetExceeded"
  ELSE "pass"

CreateChecks(req, caller) ==
  IF ~IsSome(req.title) \/ ~IsSome(req.budgetCap) THEN "BadRequest"
  ELSE IF Role(caller) = "USER" /\ CreateOwner(req, caller) # caller THEN "Forbidden"
  ELSE IF OverrideDenied(req, caller) THEN "Forbidden"
  ELSE IF CreateGateDenies(req) THEN "BudgetExceeded"
  ELSE "pass"


---------------------------------------------------------------------------
(* The handlers of the promise-based controller *)

\* an updateReport that writes the merge before it applies the budget gate
UpdateReport_WriteBeforeGate(st, existing, id, caller, req, expectedVersion, t) ==
  LET chk == UpdateChecks(existing, caller, req, expectedVersion)
      r == RepoUpdate(st, id, Whitelist(req), expectedVersion, t)
  IN IF chk = "BudgetExceeded" /\ r.err = "none"
       THEN [outcome |-> chk, store |-> r.store, result |-> None]
     ELSE IF chk # "pass" THEN [outcome |-> chk, store |-> st, result |-> None]
     ELSE IF r.err = "VERSION_MISMATCH"
       THEN [outcome |-> "VersionMismatch", store |-> r.store, result |-> None]
     ELSE IF r.err # "none"
       THEN [outcome |-> "InternalError", store |-> r.store, result |-> None]
     ELSE [outcome |-> "ok", store |-> r.store, result |-> r.result]

\* updateReport after `await repo.findById(id)`: the checks on the loaded
\* report, then repo.update(id, updated, expectedVersion) at time t
UpdateReport(st, existing, id, caller, req, expectedVersion, t) ==
  LET chk == UpdateChecks(existing, caller, req, expectedVersion)
      r == RepoUpdate(st, id, Whitelist(req), expectedVersion, t)
  IN IF chk # "pass" THEN [outcome |-> chk, store |-> st, result |-> None]
     ELSE IF r.err = "VERSION_MISMATCH"
       THEN [outcome |-> "VersionMismatch", store |-> r.store, result |-> None]
     ELSE IF r.err # "none"
       THEN [outcome |-> "InternalError", store |-> r.store, result |-> None]
     ELSE [outcome |-> "ok", store |-> r.store, result |-> r.result]

\* a job handed to JobQueueService.enqueue: its type, the fields of its
\* payload, and whether the enqueue call failed
Job(type, reportId, ownerId, createdAt, failed) ==
  [type |-> type, reportId |-> reportId, ownerId |-> ownerId,
   createdAt |-> createdAt, failed |-> failed]

\* createReport: the checks, then modelCreateReport at time t
CreateReport(st, caller, req, t) ==
  LET chk == CreateChecks(req, caller)
      rec == NewReport(st, req, CreateOwner(req, caller), t)
  IN IF chk # "pass" THEN [outcome |-> chk, store |-> st, result |-> None]
     ELSE [outcome |-> "ok", store |-> (rec.id :> rec) @@ st, result |-> Some(rec)]

\* addComment: ADMIN, the owner, and viewers with COMMENT or EDIT access
CanComment(existing, caller) ==
  \/ Role(caller) = "ADMIN"
  \/ existing.ownerId = caller
  \/ \E i \in DOMAIN existing.viewers :
       /\ existing.viewers[i].userId = caller
       /\ existing.viewers[i].access \in {"COMMENT", "EDIT"}

\* uploadAttachment: ADMIN, the owner, and viewers with EDIT access
CanAttach(existing, caller) ==
  \/ Role(caller) = "ADMIN"
  \/ existing.ownerId = caller
  \/ \E i \in DOMAIN existing.viewers :
       /\ existing.viewers[i].userId = caller
       /\ existing.viewers[i].access = "EDIT"

\* an addComment that stores a new report under an id it did not find
AddComment_Upsert(st, existing, id, caller, req, t) ==
  IF ~IsSome(existing)
    THEN LET rec == [SeedReports[1] EXCEPT
                       !.id = id, !.ownerId = caller, !.entries = <<>>,
                       !.comments = <<Comment(caller, req.text[1], t)>>,
                       !.createdAt = t, !.updatedAt = t]
         IN [outcome |-> "ok", store |-> (id :> rec) @@ st, result |-> Some(rec)]
  ELSE IF ~CanComment(existing[1], caller)
    THEN [outcome |-> "Forbidden", store |-> st, result |-> None]
  ELSE LET newComment == Comment(caller, req.text[1], t)
           updatedComments == Append(existing[1].comments, newComment)
           r == RepoUpdate(st, id, [NoUpdate EXCEPT !.comments = Some(updatedComments)],
                           None, t)
       IN IF r.err # "none"
            THEN [outcome |-> "InternalError", store |-> r.store, result |-> None]
          ELSE [outcome |-> "ok", store |-> r.store, result |-> r.result]

\* addComment after `await repo.findById(id)`: the comment is appended to the
\* comments of the report it loaded and written with repo.update(id,
\* { comments }), which is given no expected version
AddComment(st, existing, id, caller, req, t) ==
  IF ~IsSome(existing) THEN [outcome |-> "NotFound", store |-> st, result |-> None]
  ELSE IF ~CanComment(existing[1], caller)
    THEN [outcome |-> "Forbidden", store |-> st, result |-> None]
  ELSE LET newComment == Comment(caller, req.text[1], t)
           updatedComments == Append(existing[1].comments, newComment)
           r == RepoUpdate(st, id, [NoUpdate EXCEPT !.comments = Some(updatedComments)],
                           None, t)
       IN IF r.err # "none"
            THEN [outcome |-> "InternalError", store |-> r.store, result |-> None]
          ELSE [outcome |-> "ok", store |-> r.store, result |-> r.result]

\* limits.fileSize of the upload middleware: 5 * 1024 * 1024
fileSize == 5242880

\* upload.single('attachment'): the error multer reports for the file, if any
UploadError(file) ==
  IF file.mimetype # "application/pdf" THEN "InvalidFileType"
  ELSE IF file.size > fileSize THEN "FileTooLarge"
  ELSE "none"

\* what uploadAttachment answers before it loads the report: the middleware's
\* error, "NoFile" when req.file is not set, "none" when it goes on
UploadOutcome(req) ==
  IF ~IsSome(req.file) THEN "NoFile" ELSE UploadError(req.file[1])

\* uploadAttachment after `await repo.findById(id)`: the attachment record is
\* appended to the attachments of the report it loaded and written with
\* repo.update(id, { attachments }), which is given no expected version
UploadAttachment(st, existing, id, caller, req, t) ==
  IF ~IsSome(existing) THEN [outcome |-> "NotFound", store |-> st, result |-> None]
  ELSE IF ~CanAttach(existing[1], caller)
    THEN [outcome |-> "Forbidden", store |-> st, result |-> None]
  ELSE LET newAttachment == Attachment(caller, req.file[1], t)
           updatedAttachments == Append(existing[1].attachments, newAttachment)
           r == RepoUpdate(st, id,
                           [NoUpdate EXCEPT !.attachments = Some(updatedAttachments)],
                           None, t)
       IN IF r.err # "none"
            THEN [outcome |-> "InternalError", store |-> r.store, result |-> None]
          ELSE [outcome |-> "ok", store |-> r.store, result |-> r.result]

\* a createReport that enqueues the job whether or not the report was stored
CreateHook_Always(r, hookFails) ==
  IF r.outcome = "ok"
    THEN <<Job("REPORT_CREATED", r.result[1].id, Some(r.result[1].ownerId),
               Some(r.result[1].createdAt), hookFails)>>
    ELSE <<Job("REPORT_CREATED", 0, None, None, hookFails)>>

\* createReport after modelCreateReport has returned rec: the call
\* JobQueueService.enqueue({ type: 'REPORT_CREATED', payload: { reportId,
\* ownerId, createdAt } }); r is what CreateReport produced
CreateHook(r, hookFails) ==
  IF r.outcome = "ok"
    THEN <<Job("REPORT_CREATED", r.result[1].id, Some(r.result[1].ownerId),
               Some(r.result[1].createdAt), hookFails)>>
    ELSE <<>>

\* a createReport that lets the failure of enqueue reach its outer catch
CreateVerdict_HookSurfaced(r, hookFails) ==
  IF r.outcome = "ok" /\ hookFails THEN "InternalError" ELSE r.outcome

\* the response of createReport: try { await enqueue(...) } catch (jobError)
\* { console.error(...) } leaves the 201 in place
CreateVerdict(r, hookFails) == r.outcome

\* getReport: admin sees all, user sees own or if listed
canAccess(rec, caller) ==
  \/ Role(caller) = "ADMIN"
  \/ /\ Role(caller) = "USER"
     /\ \/ rec.ownerId = caller
        \/ \E i \in DOMAIN rec.viewers : rec.viewers[i].userId = caller

\* getReport: the view options built from the query parameters; a numeric
\* parameter is the number Number(...) makes of it; entriesPage and
\* entriesSize are not among the parameters read
ParseQuery(query) ==
  [NoOptions EXCEPT !.include = query.include, !.compact = query.compact,
                    !.offset = query.offset, !.limit = query.limit,
                    !.entriesSort = query.entriesSort,
                    !.entriesMinAmount = query.entriesMinAmount]

\* getReport: the report is loaded, access is checked, and the view shaped
\* by toReportView(rec, opts) is the answer; rec is the stored object
getReport(st, id, caller, query) ==
  LET rec == findById(st, id)
      opts == ParseQuery(query)
      shaped == toReportView(rec[1], opts)
  IN IF ~IsSome(rec)
       THEN [outcome |-> "NotFound", store |-> st, result |-> None]
     ELSE IF ~canAccess(rec[1], caller)
       THEN [outcome |-> "Forbidden", store |-> st, result |-> None]
     ELSE [outcome |-> "ok",
           store |-> [st EXCEPT ![id] = StoredAfterView(rec[1], opts)],
           result |-> Some(IF opts.compact
                             THEN [shaped EXCEPT !.viewers = None, !.comments = None]
                             ELSE shaped)]

\* Array.from(this.store.values()): the stored reports in insertion order
RECURSIVE ReportsUpTo(_, _)
ReportsUpTo(st, n) ==
  IF n = 0 THEN <<>>
  ELSE ReportsUpTo(st, n - 1) \o (IF n \in DOMAIN st THEN <<st[n]>> ELSE <<>>)

\* what reports.list() resolves to
ListOf(st) == ReportsUpTo(st, Cardinality(DOMAIN st))

\* getReportsByUser(userId): allReports is what the async reports.list()
\* returns, a Promise; it is returned as it is for an ADMIN, and
\* allReports.filter(...) is called on it for any other user, which throws
\* a TypeError
getReportsByUser(st, userId) ==
  IF Role(userId) = "ADMIN" THEN [err |-> "none", reports |-> ListOf(st)]
  ELSE [err |-> "TypeError", reports |-> <<>>]

\* listReports: `await getReportsByUser(user.id, user.role)`, each report
\* shaped by toReportView; a throw is answered 500
listReports(st, caller) ==
  LET r == getReportsByUser(st, caller)
  IN IF r.err # "none" THEN [outcome |-> "InternalError", result |-> None]
     ELSE [outcome |-> "ok",
           result |-> Some([i \in DOMAIN r.reports |->
                              toReportView(r.reports[i], NoOptions)])]

\* the body of a failure response, res.status(...).json({ error, message }):
\* the error and the set of numbers the body carries, which is empty
ErrorBody(error) == [error |-> error, values |-> {}]

\* the body of a response of createReport, updateReport, addComment and
\* uploadAttachment: toReportView(result) on success, the error otherwise
ResponseBody(outcome, result) ==
  IF outcome = "ok" THEN toReportView(result[1], NoOptions) ELSE ErrorBody(outcome)

---------------------------------------------------------------------------
(* The synchronous controller: models/report and the job queue *)

\* canAccess of the synchronous getReport: the non-admin caller is looked up
\* in report.users, which the seeded reports do not have and no request of
\* the model sets
canAccessJobs(report, caller) ==
  \/ Role(caller) = "ADMIN"
  \/ Role(caller) = "USER" /\ report.ownerId = caller

\* getReport of the synchronous controller
getReportJobs(st, id, caller, query) ==
  LET report == findById(st, id)
      opts == ParseQuery(query)
      shaped == toReportView(report[1], opts)
  IN IF ~IsSome(report)
       THEN [outcome |-> "NotFound", store |-> st, result |-> None]
     ELSE IF ~canAccessJobs(report[1], caller)
       THEN [outcome |-> "Forbidden", store |-> st, result |-> None]
     ELSE [outcome |-> "ok",
           store |-> [st EXCEPT ![id] = StoredAfterView(report[1], opts)],
           result |-> Some(IF opts.compact
                             THEN [shaped EXCEPT !.viewers = None, !.comments = None]
                             ELSE shaped)]

\* models/report updateReport(id, updated, expectedVersion) at time t
ModelUpdateReport(st, id, updated, expectedVersion, t) ==
  LET existing == findById(st, id)
  IN IF ~IsSome(existing)
       THEN [err |-> "NotFound", store |-> st, result |-> None]
     ELSE IF IsSome(expectedVersion) /\ expectedVersion[1] # existing[1].version
       THEN [err |-> "VERSION_MISMATCH", store |-> st, result |-> None]
     ELSE LET merged == Merge(existing[1], updated, t)
          IN [err |-> "none", store |-> [st EXCEPT ![id] = merged],
              result |-> Some(merged)]

\* a whole report passed as the `updated` argument
AsUpdate(report) ==
  [status |-> Some(report.status), entries |-> Some(report.entries),
   budgetCap |-> Some(report.budgetCap),
   budgetOverride |-> Some(report.budgetOverride), ownerId |-> Some(report.ownerId),
   viewers |-> Some(report.viewers), comments |-> Some(report.comments),
   attachments |-> Some(report.attachments)]

\* an updateReportView that writes the report back as a draft
updateReportView_BackToDraft(st, reportId, t) ==
  IF reportId \notin DOMAIN st THEN [store |-> st, report |-> None]
  ELSE LET report == [st[reportId] EXCEPT !.metrics = Some(ReportMetrics(st[reportId])),
                                          !.status = "DRAFT"]
           r == ModelUpdateReport([st EXCEPT ![reportId] = report], reportId,
                                  AsUpdate(report), None, t)
       IN [store |-> r.store, report |-> Some(report)]

\* models/report updateReportView(reportId) at time t: the stored object gets
\* its metrics in place (report) and is then written through updateReport
\* with no expected version
updateReportView(st, reportId, t) ==
  IF reportId \notin DOMAIN st THEN [store |-> st, report |-> None]
  ELSE LET report == [st[reportId] EXCEPT !.metrics = Some(ReportMetrics(st[reportId]))]
           r == ModelUpdateReport([st EXCEPT ![reportId] = report], reportId,
                                  AsUpdate(report), None, t)
       IN [store |-> r.store, report |-> Some(report)]

\* JobQueueService.enqueue(job): processJob runs inside the call, up to its
\* first suspension, which is after updateReportView has returned
Enqueue(st, type, reportId, t) ==
  IF type = "UPDATE_REPORT_VIEW" THEN updateReportView(st, reportId, t)
  ELSE [store |-> st, report |-> findById(st, reportId)]

\* updateReport of the synchronous controller at time t; the object it passes
\* to toReportView is the one the job has put the metrics on
UpdateReportJobs(st, id, caller, req, expectedVersion, t) ==
  LET existing == findById(st, id)
      chk == UpdateChecks(existing, caller, req, expectedVersion)
      r == ModelUpdateReport(st, id, Whitelist(req), expectedVersion, t)
      job == Enqueue(r.store, "UPDATE_REPORT_VIEW", id, t)
  IN IF chk # "pass" THEN [outcome |-> chk, store |-> st, result |-> None]
     ELSE IF r.err = "VERSION_MISMATCH"
       THEN [outcome |-> "VersionMismatch", store |-> r.store, result |-> None]
     ELSE IF r.err # "none"
       THEN [outcome |-> "InternalError", store |-> r.store, result |-> None]
     ELSE [outcome |-> "ok", store |-> job.store, result |-> job.report]

\* createReport of the synchronous controller at time t
CreateReportJobs(st, caller, req, t) ==
  LET chk == CreateChecks(req, caller)
      rec == NewReport(st, req, CreateOwner(req, caller), t)
      job == Enqueue((rec.id :> rec) @@ st, "UPDATE_REPORT_VIEW", rec.id, t)
      notified == Enqueue(job.store, "REPORT_CREATED_NOTIFICATION", rec.id, t)
  IN IF chk # "pass" THEN [outcome |-> chk, store |-> st, result |-> None]
     ELSE [outcome |-> "ok", store |-> notified.store, result |-> job.report]

\* the jobs createReport of the synchronous controller enqueues
CreateHookJobs(r) ==
  IF r.outcome = "ok"
    THEN <<Job("UPDATE_REPORT_VIEW", r.result[1].id, None, None, FALSE),
           Job("REPORT_CREATED_NOTIFICATION", r.result[1].id,
               Some(r.result[1].ownerId), None, FALSE)>>
    ELSE <<>>

\* the job updateReport of the synchronous controller enqueues
UpdateHookJobs(r) ==
  IF r.outcome = "ok"
    THEN <<Job("UPDATE_REPORT_VIEW", r.result[1].id, None, None, FALSE)>>
    ELSE <<>>

---------------------------------------------------------------------------
(* Requests *)

BigEntries == <<Entry(3200)>>

SmallEntries == <<Entry(500), Entry(100)>>

NoReq ==
  [title |-> None, ownerId |-> None, budgetCap |-> None, status |-> None,
   entries |-> None, budgetOverride |-> None, viewers |-> None,
   text |-> None, file |-> None, query |-> None, comments |-> None,
   createdAt |-> None]

UpdateRequests ==
  { [NoReq EXCEPT !.status = st, !.entries = es, !.budgetCap = cap,
                  !.budgetOverride = ov] :
      st \in {None, Some("SUBMITTED"), Some("APPROVED")},
      es \in {None, Some(BigEntries)},
      cap \in {None, Some(5000)},
      ov \in {None, Some("true"), Some("false"), Some("1")} }
  \cup
  \* payloads that carry ownerId
  { [NoReq EXCEPT !.ownerId = Some(ow), !.status = st, !.budgetOverride = ov] :
      ow \in {"user1", "user2"},
      st \in {None, Some("SUBMITTED")},
      ov \in {None, Some("true")} }
  \cup
  \* payloads that carry viewers, and fields outside the whitelist
  { [NoReq EXCEPT !.viewers = Some(ViewersPayload(TRUE, <<"user1", "user2">>))],
    [NoReq EXCEPT !.viewers = Some(ViewersPayload(FALSE, <<Viewer("user2", "EDIT")>>))],
    [NoReq EXCEPT !.comments = Some(<<>>), !.createdAt = Some(99),
                  !.budgetCap = Some(5000)] }

CreateRequests ==
  { [NoReq EXCEPT !.title = ti, !.ownerId = ow, !.budgetCap = cap, !.status = st,
                  !.entries = es, !.budgetOverride = ov] :
      ti \in {None, Some("t")},
      ow \in {None, Some("user1")},
      cap \in {Some(1000)},
      st \in {None, Some("SUBMITTED")},
      es \in {None, Some(BigEntries), Some(SmallEntries)},
      ov \in {None, Some("true"), Some("false"), Some("1")} }

\* bodies of addComment: text absent, text given
CommentRequests == { [NoReq EXCEPT !.text = t] : t \in {None, Some("note")} }

File(mimetype, size) == [mimetype |-> mimetype, size |-> size]

\* uploads: no file, a PDF, an image, a PDF over the size limit
UploadRequests ==
  { [NoReq EXCEPT !.file = f] :
      f \in {None, Some(File("application/pdf", 1024)), Some(File("image/png", 1024)),
             Some(File("application/pdf", fileSize + 1))} }

\* <<If-Match header, body.version>>
VersionInputs ==
  {<<None, None>>, <<None, Some(1)>>, <<Some(2), Some(1)>>}
  \cup {<<Some(v), None>> : v \in {1, 2, 3}}

Slots == 1..MaxCalls

---------------------------------------------------------------------------
(* State *)

IdleCall == [pc |-> "idle", id |-> 0, existing |-> None, call |-> 0]

NoLast ==
  [call |-> 0, op |-> "none", caller |-> "admin1", id |-> 0, req |-> NoReq,
   expectedVersion |-> None, existing |-> None, prev |-> None,
   outcome |-> "none", result |-> None, stored |-> None, wrote |-> FALSE,
   body |-> None]

Init ==
  /\ store = SeedReports
  /\ now = 0
  /\ calls = [s \in Slots |-> IdleCall]
  /\ ops = 0
  /\ last = NoLast
  /\ log = <<>>
  /\ jobs = <<>>

\* the handler is entered for report id and suspends at `await repo.findById(id)`
BeginUpdate(s) ==
  /\ last = NoLast
  /\ ops < MaxOps
  /\ calls[s].pc = "idle"
  /\ \A z \in Slots : z < s => calls[z].pc # "idle"
  /\ \E id \in DOMAIN store \cup {FreshId(store)} :
       calls' = [calls EXCEPT ![s] =
                   [pc |-> "loaded", id |-> id, existing |-> findById(store, id),
                    call |-> ops + 1]]
  /\ ops' = ops + 1
  /\ UNCHANGED <<store, now, last, log, jobs>>

\* the handler resumes with the report it loaded and runs to its response
FinishUpdate(s) ==
  /\ last = NoLast
  /\ calls[s].pc = "loaded"
  /\ \E caller \in Users, req \in UpdateRequests, v \in VersionInputs :
       LET c == calls[s]
           ev == ExpectedVersion(v[1], v[2])
       IN \E r \in {UpdateReport(store, c.existing, c.id, caller, req, ev, now + 1)} :
          /\ store' = r.store
          /\ now' = IF r.outcome = "ok" THEN now + 1 ELSE now
          /\ last' = [call |-> c.call, op |-> "update", caller |-> caller, id |-> c.id,
                      req |-> req, expectedVersion |-> ev, existing |-> c.existing,
                      prev |-> findById(store, c.id), outcome |-> r.outcome,
                      result |-> r.result, stored |-> findById(r.store, c.id),
                      wrote |-> r.store # store,
                      body |-> Some(ResponseBody(r.outcome, r.result))]
          /\ log' = IF r.outcome = "ok"
                      THEN Append(log, [id |-> c.id, expected |-> Coalesce(ev, 0),
                                        prior |-> store[c.id].version,
                                        call |-> c.call])
                      ELSE log
  /\ calls' = [calls EXCEPT ![s] = IdleCall]
  /\ UNCHANGED <<ops, jobs>>

\* createReport: no state is read after its first suspension
Create ==
  /\ last = NoLast
  /\ ops < MaxOps
  /\ \E caller \in Users, req \in CreateRequests, hookFails \in BOOLEAN :
     \E r \in {CreateReport(store, caller, req, now + 1)} :
       LET newId == IF r.outcome = "ok" THEN r.result[1].id ELSE 0
       IN /\ r.outcome # "ok" => ~hookFails
          /\ store' = r.store
          /\ now' = IF r.outcome = "ok" THEN now + 1 ELSE now
          /\ jobs' = jobs \o CreateHook(r, hookFails)
          /\ last' = [call |-> ops + 1, op |-> "create", caller |-> caller,
                      id |-> newId, req |-> req, expectedVersion |-> None,
                      existing |-> None, prev |-> None,
                      outcome |-> CreateVerdict(r, hookFails),
                      result |-> r.result, stored |-> findById(r.store, newId),
                      wrote |-> r.store # store,
                      body |-> Some(ResponseBody(CreateVerdict(r, hookFails),
                                                 r.result))]
  /\ ops' = ops + 1
  /\ UNCHANGED <<calls, log>>

\* addComment without a text: 400 MissingField before the report is loaded
AddCommentMissingField ==
  /\ last = NoLast
  /\ ops < MaxOps
  /\ \E caller \in Users, id \in DOMAIN store \cup {FreshId(store)},
        req \in CommentRequests :
       /\ ~IsSome(req.text)
       /\ last' = [NoLast EXCEPT !.call = ops + 1, !.op = "comment",
                                 !.caller = caller, !.id = id, !.req = req,
                                 !.prev = findById(store, id),
                                 !.stored = findById(store, id),
                                 !.outcome = "MissingField",
                                 !.body = Some(ErrorBody("MissingField"))]
  /\ ops' = ops + 1
  /\ UNCHANGED <<store, now, calls, log, jobs>>

\* addComment with a text is entered for report id and suspends at
\* `await repo.findById(id)`
BeginAddComment(s) ==
  /\ last = NoLast
  /\ ops < MaxOps
  /\ calls[s].pc = "idle"
  /\ \A z \in Slots : z < s => calls[z].pc # "idle"
  /\ \E id \in DOMAIN store \cup {FreshId(store)} :
       calls' = [calls EXCEPT ![s] =
                   [pc |-> "comment", id |-> id, existing |-> findById(store, id),
                    call |-> ops + 1]]
  /\ ops' = ops + 1
  /\ UNCHANGED <<store, now, last, log, jobs>>

\* addComment resumes with the report it loaded and runs to its response
FinishAddComment(s) ==
  /\ last = NoLast
  /\ calls[s].pc = "comment"
  /\ \E caller \in Users, req \in CommentRequests :
       /\ IsSome(req.text)
       /\ LET c == calls[s]
          IN \E r \in {AddComment(store, c.existing, c.id, caller, req, now + 1)} :
             /\ store' = r.store
             /\ now' = IF r.outcome = "ok" THEN now + 1 ELSE now
             /\ last' = [call |-> c.call, op |-> "comment", caller |-> caller,
                         id |-> c.id, req |-> req, expectedVersion |-> None,
                         existing |-> c.existing, prev |-> findById(store, c.id),
                         outcome |-> r.outcome, result |-> r.result,
                         stored |-> findById(r.store, c.id), wrote |-> r.store # store,
                         body |-> Some(ResponseBody(r.outcome, r.result))]
  /\ calls' = [calls EXCEPT ![s] = IdleCall]
  /\ UNCHANGED <<ops, log, jobs>>

\* uploadAttachment turned away by the upload middleware or for want of a
\* file: 400 before the report is loaded
UploadRejected ==
  /\ last = NoLast
  /\ ops < MaxOps
  /\ \E caller \in Users, id \in DOMAIN store \cup {FreshId(store)},
        req \in UploadRequests :
       /\ UploadOutcome(req) # "none"
       /\ last' = [NoLast EXCEPT !.call = ops + 1, !.op = "attach",
                                 !.caller = caller, !.id = id, !.req = req,
                                 !.prev = findById(store, id),
                                 !.stored = findById(store, id),
                                 !.outcome = UploadOutcome(req),
                                 !.body = Some(ErrorBody(UploadOutcome(req)))]
  /\ ops' = ops + 1
  /\ UNCHANGED <<store, now, calls, log, jobs>>

\* uploadAttachment with an accepted file is entered for report id and
\* suspends at `await repo.findById(id)`
BeginUpload(s) ==
  /\ last = NoLast
  /\ ops < MaxOps
  /\ calls[s].pc = "idle"
  /\ \A z \in Slots : z < s => calls[z].pc # "idle"
  /\ \E id \in DOMAIN store \cup {FreshId(store)} :
       calls' = [calls EXCEPT ![s] =
                   [pc |-> "upload", id |-> id, existing |-> findById(store, id),
                    call |-> ops + 1]]
  /\ ops' = ops + 1
  /\ UNCHANGED <<store, now, last, log, jobs>>

\* uploadAttachment resumes with the report it loaded and runs to its response
FinishUpload(s) ==
  /\ last = NoLast
  /\ calls[s].pc = "upload"
  /\ \E caller \in Users, req \in UploadRequests :
       /\ UploadOutcome(req) = "none"
       /\ LET c == calls[s]
          IN \E r \in {UploadAttachment(store, c.existing, c.id, caller, req, now + 1)} :
             /\ store' = r.store
             /\ now' = IF r.outcome = "ok" THEN now + 1 ELSE now
             /\ last' = [call |-> c.call, op |-> "attach", caller |-> caller,
                         id |-> c.id, req |-> req, expectedVersion |-> None,
                         existing |-> c.existing, prev |-> findById(store, c.id),
                         outcome |-> r.outcome, result |-> r.result,
                         stored |-> findById(r.store, c.id), wrote |-> r.store # store,
                         body |-> Some(ResponseBody(r.outcome, r.result))]
  /\ calls' = [calls EXCEPT ![s] = IdleCall]
  /\ UNCHANGED <<ops, log, jobs>>

\* res.status(...).json(...): the response on record leaves the server; `last`
\* holds one response at a time, the one the client is being sent
Respond ==
  /\ last # NoLast
  /\ last' = NoLast
  /\ UNCHANGED <<store, now, calls, ops, log, jobs>>

Next ==
  \/ \E s \in Slots : BeginUpdate(s)
  \/ \E s \in Slots : FinishUpdate(s)
  \/ Create
  \/ AddCommentMissingField
  \/ \E s \in Slots : BeginAddComment(s)
  \/ \E s \in Slots : FinishAddComment(s)
  \/ UploadRejected
  \/ \E s \in Slots : BeginUpload(s)
  \/ \E s \in Slots : FinishUpload(s)
  \/ Respond

Spec == Init /\ [][Next]_vars

\* updateReport of the synchronous controller: one step from request to response
UpdateJobs ==
  /\ last = NoLast
  /\ ops < MaxOps
  /\ \E id \in DOMAIN store \cup {FreshId(store)}, caller \in Users,
        req \in UpdateRequests, v \in VersionInputs :
       LET ev == ExpectedVersion(v[1], v[2])
       IN \E r \in {UpdateReportJobs(store, id, caller, req, ev, now + 1)} :
          /\ store' = r.store
          /\ now' = IF r.outcome = "ok" THEN now + 1 ELSE now
          /\ last' = [call |-> ops + 1, op |-> "update", caller |-> caller, id |-> id,
                      req |-> req, expectedVersion |-> ev,
                      existing |-> findById(store, id), prev |-> findById(store, id),
                      outcome |-> r.outcome, result |-> r.result,
                      stored |-> findById(r.store, id), wrote |-> r.store # store,
                      body |-> Some(ResponseBody(r.outcome, r.result))]
          /\ log' = IF r.outcome = "ok"
                      THEN Append(log, [id |-> id, expected |-> Coalesce(ev, 0),
                                        prior |-> store[id].version,
                                        call |-> ops + 1])
                      ELSE log
          /\ jobs' = jobs \o UpdateHookJobs(r)
  /\ ops' = ops + 1
  /\ UNCHANGED calls

\* createReport of the synchronous controller
CreateJobs ==
  /\ last = NoLast
  /\ ops < MaxOps
  /\ \E caller \in Users, req \in CreateRequests :
     \E r \in {CreateReportJobs(store, caller, req, now + 1)} :
       LET newId == IF r.outcome = "ok" THEN r.result[1].id ELSE 0
       IN /\ store' = r.store
          /\ now' = IF r.outcome = "ok" THEN now + 1 ELSE now
          /\ last' = [call |-> ops + 1, op |-> "create", caller |-> caller,
                      id |-> newId, req |-> req, expectedVersion |-> None,
                      existing |-> None, prev |-> None, outcome |-> r.outcome,
                      result |-> r.result, stored |-> findById(r.store, newId),
                      wrote |-> r.store # store,
                      body |-> Some(ResponseBody(r.outcome, r.result))]
          /\ jobs' = jobs \o CreateHookJobs(r)
  /\ ops' = ops + 1
  /\ UNCHANGED <<calls, log>>

\* queries that ask for the whole rich view or for the compact summary
PlainQueries == {[NoOptions EXCEPT !.compact = c] : c \in BOOLEAN}

\* getReport of the synchronous controller
GetJobs ==
  /\ last = NoLast
  /\ ops < MaxOps
  /\ \E id \in DOMAIN store \cup {FreshId(store)}, caller \in Users,
        query \in PlainQueries :
     \E r \in {getReportJobs(store, id, caller, query)} :
       /\ last' = [NoLast EXCEPT !.call = ops + 1, !.op = "get", !.caller = caller,
                                 !.id = id, !.req = [NoReq EXCEPT !.query = Some(query)],
                                 !.existing = findById(store, id),
                                 !.prev = findById(store, id),
                                 !.stored = findById(r.store, id),
                                 !.outcome = r.outcome, !.result = r.result,
                                 !.body = IF r.outcome = "ok" THEN r.result
                                          ELSE Some(ErrorBody(r.outcome))]
       /\ store' = r.store
  /\ ops' = ops + 1
  /\ UNCHANGED <<now, calls, log, jobs>>

\* JobQueueService.enqueue({ type: 'UPDATE_REPORT_VIEW', payload: { reportId } })
\* for any report id, stored or not
RunViewJob ==
  /\ last = NoLast
  /\ ops < MaxOps
  /\ \E id \in DOMAIN store \cup {FreshId(store)} :
     \E r \in {Enqueue(store, "UPDATE_REPORT_VIEW", id, now + 1)} :
       /\ store' = r.store
       /\ now' = IF r.store # store THEN now + 1 ELSE now
       /\ last' = [NoLast EXCEPT !.call = ops + 1, !.op = "job", !.id = id,
                                 !.prev = findById(store, id),
                                 !.stored = findById(r.store, id),
                                 !.outcome = "done",
                                 !.wrote = r.store # store]
       /\ jobs' = Append(jobs, Job("UPDATE_REPORT_VIEW", id, None, None, FALSE))
  /\ ops' = ops + 1
  /\ UNCHANGED <<calls, log>>

NextJobs ==
  \/ UpdateJobs
  \/ CreateJobs
  \/ GetJobs
  \/ RunViewJob
  \/ Respond

SpecJobs == Init /\ [][NextJobs]_vars

---------------------------------------------------------------------------
(* Reading: getReport and the view shaper over reports with any entries *)

\* entries a stored report holds at most
MaxEntries == 3

\* entries with a date, and one without
EntryValues ==
  {[amount |-> 100, incurredAt |-> Some(2)], [amount |-> 500, incurredAt |-> Some(1)],
   [amount |-> 300, incurredAt |-> Some(1)], [amount |-> 300, incurredAt |-> None]}

\* the lists of at most MaxEntries entries
EntryLists == UNION {[1..n -> EntryValues] : n \in 0..MaxEntries}

\* query strings of GET /reports/:id
\* values of include: not given, or a list of section names
Includes == {None, Some({"comments"}), Some({"entries", "metadata"})}

Queries ==
  { [NoOptions EXCEPT !.include = inc, !.compact = c, !.offset = o, !.limit = l,
                      !.entriesSort = srt, !.entriesMinAmount = m] :
      inc \in Includes,
      c \in BOOLEAN,
      o \in {None, Some(0), Some(1)},
      l \in {None, Some(1), Some(2)},
      srt \in {None, Some("amount_desc"), Some("amount_asc"), Some("date_desc"),
               Some("date_asc")},
      m \in {None, Some(300)} }

\* options a caller of toReportView may pass
ViewOptions ==
  { [NoOptions EXCEPT !.include = inc, !.compact = c, !.entriesPage = pg,
                      !.entriesSize = sz, !.entriesSort = srt,
                      !.entriesMinAmount = m] :
      inc \in Includes,
      c \in BOOLEAN,
      pg \in {None, Some(0), Some(1), Some(2)},
      sz \in {None, Some(-1), Some(0), Some(1), Some(2)},
      srt \in {None, Some("amount_desc"), Some("date_asc")},
      m \in {None, Some(300)} }

\* the seeded store with any list of entries in the first report
InitView ==
  /\ store \in {[SeedReports EXCEPT ![1].entries = es] : es \in EntryLists}
  /\ now = 0
  /\ calls = [s \in Slots |-> IdleCall]
  /\ ops = 0
  /\ last = NoLast
  /\ log = <<>>
  /\ jobs = <<>>

\* getReport: nothing is read after `await repo.findById(id)` but the report
\* it returned
Get ==
  /\ last = NoLast
  /\ ops < MaxOps
  /\ \E id \in {1, 2, FreshId(store)}, caller \in Users, query \in Queries :
     \E r \in {getReport(store, id, caller, query)} :
       /\ last' = [NoLast EXCEPT !.call = ops + 1, !.op = "get", !.caller = caller,
                              !.id = id, !.req = [NoReq EXCEPT !.query = Some(query)],
                              !.existing = findById(store, id),
                              !.prev = findById(store, id),
                              !.stored = findById(r.store, id),
                              !.outcome = r.outcome, !.result = r.result,
                              !.body = IF r.outcome = "ok" THEN r.result
                                       ELSE Some(ErrorBody(r.outcome))]
       /\ store' = r.store
  /\ ops' = ops + 1
  /\ UNCHANGED <<now, calls, log, jobs>>

\* toReportView(report, opts) applied to the first report
Shape ==
  /\ last = NoLast
  /\ ops < MaxOps
  /\ \E options \in ViewOptions :
       /\ last' = [NoLast EXCEPT !.call = ops + 1, !.op = "shape", !.id = 1,
                                 !.req = [NoReq EXCEPT !.query = Some(options)],
                                 !.existing = findById(store, 1),
                                 !.prev = findById(store, 1),
                                 !.stored = Some(StoredAfterView(store[1], options)),
                                 !.outcome = "ok",
                                 !.result = Some(toReportView(store[1], options)),
                                 !.body = Some(toReportView(store[1], options))]
       /\ store' = [store EXCEPT ![1] = StoredAfterView(store[1], options)]
  /\ ops' = ops + 1
  /\ UNCHANGED <<now, calls, log, jobs>>

\* listReports
List ==
  /\ last = NoLast
  /\ ops < MaxOps
  /\ \E caller \in Users :
     \E r \in {listReports(store, caller)} :
       last' = [NoLast EXCEPT !.call = ops + 1, !.op = "list", !.caller = caller,
                              !.outcome = r.outcome, !.result = r.result,
                              !.body = IF r.outcome = "ok" THEN r.result
                                       ELSE Some(ErrorBody(r.outcome))]
  /\ ops' = ops + 1
  /\ UNCHANGED <<store, now, calls, log, jobs>>

NextView ==
  \/ Get
  \/ Shape
  \/ List
  \/ Respond

SpecView == InitView /\ [][NextView]_vars

---------------------------------------------------------------------------
(* Properties of the promise-based controller (Spec) *)

IsUpdate == last.op = "update"
IsCreate == last.op = "create"
Succeeded == last.outcome = "ok"

\* C1: a successful update returns the report at the version stored
\* immediately before the update plus one, and the store is left holding
\* exactly that report (so that version).
C1_UpdateIncrementsVersion ==
  (IsUpdate /\ Succeeded) =>
    /\ last.result[1].version = last.prev[1].version + 1
    /\ last.stored = last.result

\* a second successful update of one report: version 2 becomes version 3
C1_Witness ==
  /\ IsUpdate /\ Succeeded
  /\ last.prev[1].version = 2
  /\ last.stored[1].version = 3

\* another handler has already persisted against the version this one presents
LostRace ==
  /\ IsUpdate
  /\ IsSome(last.expectedVersion)
  /\ \E i \in DOMAIN log :
       /\ log[i].id = last.id
       /\ log[i].call # last.call
       /\ log[i].expected = last.expectedVersion[1]

\* no two successful updates of one report presented the same expected version
NoTwoWinners ==
  \A i, j \in DOMAIN log :
    (i # j /\ log[i].id = log[j].id) => log[i].expected # log[j].expected

\* the version of a stored report does not decrease in any step
VersionMonotone ==
  \A id \in DOMAIN store : id \in DOMAIN store' /\ store'[id].version >= store[id].version

\* C2 (as amended): of the update calls on one report that present the same
\* expected version, at most one succeeds; every other one fails, with
\* VersionMismatch (409) when it passes the checks the handler makes before
\* the store call; each success found the stored version equal to the one it
\* presented; and no stored version ever decreases.
C2_AtMostOneWinner ==
  /\ [](/\ NoTwoWinners
        /\ \A i \in DOMAIN log : log[i].expected = log[i].prior
        /\ LostRace =>
             /\ ~Succeeded
             /\ UpdateChecks(last.existing, last.caller, last.req,
                             last.expectedVersion) = "pass"
                  => last.outcome = "VersionMismatch")
  /\ [][VersionMonotone]_vars

\* two overlapping handlers loaded the report at the same version and
\* presented it; the second to reach the store is turned away with 409
C2_Witness ==
  /\ LostRace
  /\ last.outcome = "VersionMismatch"
  /\ last.existing[1].version = last.expectedVersion[1]
  /\ last.prev[1].version = last.expectedVersion[1] + 1

\* C2 as stated: every other call that presents the version a winner
\* presented returns VersionMismatch.
C2_LosersAllGetConflict ==
  LostRace => last.outcome = "VersionMismatch"

\* the caller passes the ownership, override-role and owner-change checks
CallerAllowed ==
  /\ IsSome(last.existing)
  /\ ~OwnershipDenied(last.existing[1], last.caller)
  /\ ~OverrideDenied(last.req, last.caller)
  /\ ~OwnerChangeDenied(last.req, last.caller)

\* C3: an update of an existing report by a caller allowed to make it, which
\* presents an expected version different from the stored one, returns
\* VersionMismatch (409) whatever else it carries, in particular when the
\* budget gate would deny it too.
C3_StaleAlwaysConflict ==
  ( /\ IsUpdate
    /\ CallerAllowed
    /\ IsSome(last.prev)
    /\ IsSome(last.expectedVersion)
    /\ last.expectedVersion[1] # last.prev[1].version )
  => last.outcome = "VersionMismatch"

\* C4: a step in which an update returns VersionMismatch writes nothing: the
\* whole store, so every field of the report including version and
\* updatedAt, and the clock are as before, however often it is repeated.
C4_FailedGuardWritesNothing ==
  [][(last' # NoLast /\ last'.outcome = "VersionMismatch")
       => (store' = store /\ now' = now)]_vars

\* expectedVersion 1 against a report stored at version 2
C4_Witness ==
  /\ IsUpdate
  /\ last.outcome = "VersionMismatch"
  /\ last.expectedVersion = Some(1)
  /\ last.prev[1].version = 2
  /\ last.stored = last.prev

\* the proposed state of report e under request req: the request's value
\* where it supplies one, the value of e otherwise
PostMergeOverBudget(e, req) ==
  /\ SumAmounts(Coalesce(req.entries, e.entries)) > Coalesce(req.budgetCap, e.budgetCap)
  /\ ~Truthy(Coalesce(req.budgetOverride, e.budgetOverride))

\* C6 (as amended): an update of a report the handler loaded in status DRAFT,
\* requesting SUBMITTED, that passes the ownership, override-role,
\* version-presence and owner-change checks, returns BudgetExceeded if and
\* only if the post-merge entries sum to more than the post-merge cap and
\* the post-merge override is not set; with the post-merge override set it
\* is never refused for budget.
C6_GateOnPostMergeValues ==
  ( /\ IsUpdate
    /\ CallerAllowed
    /\ IsSome(last.expectedVersion)
    /\ last.existing[1].status = "DRAFT"
    /\ last.req.status = Some("SUBMITTED") )
  => (last.outcome = "BudgetExceeded"
        <=> PostMergeOverBudget(last.existing[1], last.req))

\* the stored override is set, the request clears it and raises the total:
\* the gate goes by the request's values and refuses
C6_Witness ==
  /\ IsUpdate
  /\ IsSome(last.existing)
  /\ last.existing[1].status = "DRAFT"
  /\ last.existing[1].budgetOverride = "true"
  /\ last.req.status = Some("SUBMITTED")
  /\ last.req.budgetOverride = Some("false")
  /\ last.req.entries = Some(BigEntries)
  /\ last.outcome = "BudgetExceeded"

\* C6 as stated, for the owner or an administrator presenting the current
\* version: with the post-merge budgetOverride true the DRAFT to SUBMITTED
\* update is always allowed.
C6_OverrideAlwaysAllowed ==
  ( /\ IsUpdate
    /\ IsSome(last.prev)
    /\ last.existing = last.prev
    /\ ~OwnershipDenied(last.prev[1], last.caller)
    /\ last.prev[1].status = "DRAFT"
    /\ last.req.status = Some("SUBMITTED")
    /\ last.expectedVersion = Some(last.prev[1].version)
    /\ StrictTrue(Coalesce(last.req.budgetOverride, last.prev[1].budgetOverride)) )
  => Succeeded

\* C7: under any interleaving, every successful update that takes the
\* stored status from DRAFT to SUBMITTED leaves a report with
\* sum(entries.amount) <= budgetCap or with budgetOverride set (any truthy
\* value is taken for set here).
C7_SubmittedWithinBudget ==
  ( /\ IsUpdate /\ Succeeded
    /\ last.prev[1].status = "DRAFT"
    /\ last.stored[1].status = "SUBMITTED" )
  => \/ SumAmounts(last.stored[1].entries) <= last.stored[1].budgetCap
     \/ Truthy(last.stored[1].budgetOverride)

\* a create request the controller takes up: title and numeric budgetCap
\* present, owner and override-role checks passed
CreateAdmitted ==
  /\ IsCreate
  /\ IsSome(last.req.title) /\ IsSome(last.req.budgetCap)
  /\ ~(Role(last.caller) = "USER" /\ CreateOwner(last.req, last.caller) # last.caller)
  /\ ~OverrideDenied(last.req, last.caller)

\* C8, for a caller who is not an administrator: a create request with
\* initial status SUBMITTED is refused with BudgetExceeded, nothing being
\* stored, if and only if its entries sum to more than its budgetCap and its
\* budgetOverride is not true; otherwise the report is stored with status
\* SUBMITTED.
C8_CreateGate ==
  ( /\ CreateAdmitted
    /\ Role(last.caller) # "ADMIN"
    /\ last.req.status = Some("SUBMITTED") ) =>
    LET over == /\ SumAmounts(Coalesce(last.req.entries, <<>>)) > last.req.budgetCap[1]
                /\ ~StrictTrue(Coalesce(last.req.budgetOverride, "false"))
    IN /\ over <=> (last.outcome = "BudgetExceeded" /\ ~last.wrote)
       /\ ~over => /\ Succeeded
                   /\ last.stored = last.result
                   /\ last.stored[1].status = "SUBMITTED"

\* C9: an update of a report the handler loaded in a status other than
\* DRAFT, or whose resulting status (the requested one, else the loaded one)
\* is not SUBMITTED, never returns BudgetExceeded, whatever the total and
\* the cap.
C9_GateOnlyOnDraftToSubmitted ==
  ( /\ IsUpdate
    /\ IsSome(last.existing)
    /\ \/ last.existing[1].status # "DRAFT"
       \/ Coalesce(last.req.status, last.existing[1].status) # "SUBMITTED" )
  => last.outcome # "BudgetExceeded"

\* the entries of a SUBMITTED report are replaced by ones over its cap
C9_Witness ==
  /\ IsUpdate /\ Succeeded
  /\ last.existing[1].status = "SUBMITTED"
  /\ last.req.entries = Some(BigEntries)
  /\ last.stored[1].status = "SUBMITTED"
  /\ SumAmounts(last.stored[1].entries) > last.stored[1].budgetCap
  /\ ~Truthy(last.stored[1].budgetOverride)

NonAdminOverrideTrue ==
  /\ Role(last.caller) # "ADMIN"
  /\ IsSome(last.req.budgetOverride) /\ StrictTrue(last.req.budgetOverride[1])

\* C10: a create request, or an update of an existing report by a caller who
\* may update it, carrying budgetOverride = true from a non-administrator
\* returns Forbidden and writes nothing; and no request of a
\* non-administrator makes budgetOverride true in the store.
C10_OverrideAdminOnly ==
  /\ ( /\ IsUpdate /\ NonAdminOverrideTrue
       /\ IsSome(last.existing)
       /\ ~OwnershipDenied(last.existing[1], last.caller) )
     => (last.outcome = "Forbidden" /\ ~last.wrote)
  /\ ( /\ IsCreate /\ NonAdminOverrideTrue
       /\ IsSome(last.req.title) /\ IsSome(last.req.budgetCap) )
     => (last.outcome = "Forbidden" /\ ~last.wrote)
  /\ ( /\ last # NoLast
       /\ Role(last.caller) # "ADMIN"
       /\ IsSome(last.stored)
       /\ StrictTrue(last.stored[1].budgetOverride) )
     => (IsSome(last.prev) /\ StrictTrue(last.prev[1].budgetOverride))

\* C11: an update by a caller with role USER of a report whose ownerId, as
\* the handler loaded it, is not the caller's id returns Forbidden and writes
\* nothing, whatever the request carries (a correct expected version
\* included); so every write made by a USER's update is to a report the
\* handler found to be the caller's own.
C11_UserUpdatesOnlyOwnReports ==
  /\ ( /\ IsUpdate
       /\ IsSome(last.existing)
       /\ Role(last.caller) = "USER"
       /\ last.existing[1].ownerId # last.caller )
     => (last.outcome = "Forbidden" /\ ~last.wrote /\ last.stored = last.prev)
  /\ (IsUpdate /\ Role(last.caller) = "USER" /\ last.wrote)
     => (IsSome(last.existing) /\ last.existing[1].ownerId = last.caller)

\* user2 presents the current version of user1's report with a change of
\* status: refused, the report as before
C11_Witness ==
  /\ IsUpdate
  /\ last.caller = "user2"
  /\ IsSome(last.prev)
  /\ last.existing = last.prev
  /\ last.prev[1].ownerId = "user1"
  /\ last.expectedVersion = Some(last.prev[1].version)
  /\ last.req.status = Some("APPROVED")
  /\ last.outcome = "Forbidden"
  /\ last.stored = last.prev

\* an update of an existing report whose payload carries ownerId, from a
\* caller who is not an administrator
NonAdminOwnerChange ==
  /\ IsUpdate
  /\ IsSome(last.existing)
  /\ IsSome(last.req.ownerId)
  /\ Role(last.caller) # "ADMIN"

\* the ownerId of a stored report changes only in a step that is a successful
\* update of that report by an administrator
OwnerChangesByAdminOnly ==
  \A id \in DOMAIN store :
    (id \in DOMAIN store' /\ store'[id].ownerId # store[id].ownerId)
      => /\ last'.op = "update" /\ last'.outcome = "ok"
         /\ last'.id = id
         /\ Role(last'.caller) = "ADMIN"

\* C12 (as amended): in every behaviour a stored report's ownerId changes
\* only in a successful update made by a caller with role ADMIN; an update
\* of an existing report that supplies ownerId from a non-administrator
\* never succeeds and leaves the stored report unchanged: it returns
\* Forbidden when it carries an expected version, and Forbidden or
\* MissingVersion when it carries none.
C12_OwnerChangedByAdminOnly ==
  /\ [](NonAdminOwnerChange =>
          /\ ~last.wrote /\ last.stored = last.prev
          /\ last.outcome \in {"Forbidden", "MissingVersion"}
          /\ IsSome(last.expectedVersion) => last.outcome = "Forbidden")
  /\ [][OwnerChangesByAdminOnly]_vars

\* the administrator hands user1's report to user2
C12_Witness ==
  /\ IsUpdate /\ Succeeded
  /\ last.caller = "admin1"
  /\ last.req.ownerId = Some("user2")
  /\ last.prev[1].ownerId = "user1"
  /\ last.stored[1].ownerId = "user2"

\* C12 as stated: an update of an existing report that supplies ownerId
\* from a non-administrator returns Forbidden and leaves the stored report
\* unchanged.
C12_NonAdminOwnerAlwaysForbidden ==
  NonAdminOwnerChange => (last.outcome = "Forbidden" /\ last.stored = last.prev)

\* an update that supplies neither an If-Match value nor a numeric version
\* in the body
NoVersionSupplied == IsUpdate /\ ~IsSome(last.expectedVersion)

\* C13 (as amended): an update request that supplies no expected version
\* performs no write and never succeeds, so it never reaches the store as
\* an unconditional update; it returns MissingVersion when the report
\* exists and the caller passes the ownership and override-role checks,
\* and NotFound or Forbidden from those earlier checks otherwise.
C13_NoVersionNoWrite ==
  NoVersionSupplied =>
    /\ ~last.wrote /\ last.stored = last.prev
    /\ last.outcome \in {"NotFound", "Forbidden", "MissingVersion"}
    /\ ( /\ IsSome(last.existing)
         /\ ~OwnershipDenied(last.existing[1], last.caller)
         /\ ~OverrideDenied(last.req, last.caller) )
       => last.outcome = "MissingVersion"

\* the owner asks for a change of status without a version
C13_Witness ==
  /\ NoVersionSupplied
  /\ IsSome(last.prev)
  /\ last.caller = last.prev[1].ownerId
  /\ last.req.status = Some("APPROVED")
  /\ last.outcome = "MissingVersion"
  /\ last.stored = last.prev

\* C13 as stated, for an existing report: an update request that supplies
\* no expected version returns MissingVersion and performs no write.
C13_NoVersionAlwaysMissingVersion ==
  (NoVersionSupplied /\ IsSome(last.existing))
    => (last.outcome = "MissingVersion" /\ ~last.wrote)

\* C14: every step that changes a stored report is made by a call that
\* supplied an expected version, and that version equals the version stored
\* before the write; no handler writes a report with the expected version
\* absent.
C14_EveryWriteVersionChecked ==
  (last # NoLast /\ last.wrote /\ IsSome(last.prev))
  => /\ IsSome(last.expectedVersion)
     /\ last.expectedVersion = Some(last.prev[1].version)

\* a step in which a create succeeds adds one report to the store and leaves
\* every report stored before as it was
CreateAddsOneReport ==
  (last' # NoLast /\ last'.op = "create" /\ last'.outcome = "ok")
  => /\ last'.id \notin DOMAIN store
     /\ DOMAIN store' = DOMAIN store \cup {last'.id}
     /\ \A id \in DOMAIN store : store'[id] = store[id]

CreateStep == last' # NoLast /\ last'.op = "create"

\* the step invokes the hook once, with the id, the ownerId and the
\* createdAt of a report that this step has put into the store
HookFiredForNewReport ==
  /\ Len(jobs') = Len(jobs) + 1
  /\ SubSeq(jobs', 1, Len(jobs)) = jobs
  /\ LET job == jobs'[Len(jobs')]
     IN /\ job.type = "REPORT_CREATED"
        /\ job.reportId = last'.id
        /\ job.reportId \notin DOMAIN store
        /\ job.reportId \in DOMAIN store'
        /\ job.ownerId = Some(store'[job.reportId].ownerId)
        /\ job.createdAt = Some(store'[job.reportId].createdAt)

\* C16: a create that succeeds invokes the notification hook once, with
\* (reportId, ownerId, createdAt) of the report it has stored in that step;
\* a create that is refused (missing fields, Forbidden, BudgetExceeded)
\* does not invoke it.
C16_HookExactlyOnSuccessfulCreate ==
  [][CreateStep =>
       IF last'.outcome = "ok" THEN HookFiredForNewReport ELSE jobs' = jobs]_vars

\* a report has been created and the hook has been called with its id,
\* owner and creation time
C16_Witness ==
  /\ IsCreate /\ Succeeded
  /\ jobs # <<>>
  /\ jobs[Len(jobs)].reportId = last.id
  /\ jobs[Len(jobs)].ownerId = Some(last.stored[1].ownerId)
  /\ jobs[Len(jobs)].createdAt = Some(last.stored[1].createdAt)

\* C17: a step in which an update succeeds invokes the notification hook,
\* and a step in which an update fails does not.
C17_HookOnEverySuccessfulUpdate ==
  [][(last' # NoLast /\ last'.op = "update")
       => (last'.outcome = "ok" <=> Len(jobs') = Len(jobs) + 1)]_vars

\* the step invokes the hook and the invocation fails
HookFailed ==
  /\ Len(jobs') = Len(jobs) + 1
  /\ jobs'[Len(jobs')].failed

GateTotal ==
  IF last.op = "create" THEN SumAmounts(Coalesce(last.req.entries, <<>>))
  ELSE SumAmounts(Coalesce(last.req.entries, last.existing[1].entries))

GateCap ==
  IF last.op = "create" THEN last.req.budgetCap[1]
  ELSE Coalesce(last.req.budgetCap, last.existing[1].budgetCap)

\* C29: a BudgetExceeded failure, from a create or from an update, carries
\* the computed total and the budget cap it was compared with.
C29_BudgetExceededCarriesTotalAndCap ==
  last.outcome = "BudgetExceeded" =>
    /\ GateTotal \in last.body[1].values
    /\ GateCap \in last.body[1].values

\* the call on record is an update, an add-comment or an attachment request
IsModification == last.op \in {"update", "comment", "attach"}

\* the request on record got past the checks made on its body before any
\* report is looked up: a comment has a text, an upload has an accepted file
BodyAccepted ==
  /\ last.op = "comment" => IsSome(last.req.text)
  /\ last.op = "attach" => UploadOutcome(last.req) = "none"

\* C30: an update, an add-comment with a text or an attachment request with
\* an accepted file that names an id the store does not hold returns
\* NotFound and writes nothing; the set of stored ids grows only by the id
\* of a successful create and never shrinks.
C30_UnknownIdNotFound ==
  /\ []((IsModification /\ BodyAccepted /\ ~IsSome(last.existing))
         => (last.outcome = "NotFound" /\ ~last.wrote /\ last.stored = last.prev))
  /\ [][/\ DOMAIN store \subseteq DOMAIN store'
        /\ DOMAIN store' # DOMAIN store =>
             /\ last'.op = "create"
             /\ last'.outcome = "ok"
             /\ DOMAIN store' = DOMAIN store \cup {last'.id}]_vars

\* an upload with an accepted file has been answered NotFound for an id
\* that is not stored, and the store holds the seeded reports only
C30_Witness ==
  /\ IsModification /\ BodyAccepted
  /\ last.op = "attach"
  /\ last.id \notin DOMAIN store
  /\ last.outcome = "NotFound"
  /\ DOMAIN store = DOMAIN SeedReports

\* C30 as stated: every update, add-comment or attachment request naming an
\* id that is not stored returns NotFound.
C30_UnknownIdAlwaysNotFound ==
  (IsModification /\ ~IsSome(last.prev)) => last.outcome = "NotFound"

\* sequence a is the beginning of sequence b
IsPrefix(a, b) == Len(a) <= Len(b) /\ a = SubSeq(b, 1, Len(a))

\* C31: comments and attachments are append-only: in every step, calls that
\* run concurrently on the same report included, each stored report keeps
\* the comments and attachments it had, unchanged and in order, at the
\* beginning of the ones it has afterwards, and a successful add-comment or
\* attach-file adds exactly one element at the end.
C31_CommentsAndAttachmentsAppendOnly ==
  [][\A id \in DOMAIN store :
       /\ IsPrefix(store[id].comments, store'[id].comments)
       /\ IsPrefix(store[id].attachments, store'[id].attachments)
       /\ Len(store'[id].comments) + Len(store'[id].attachments)
            <= Len(store[id].comments) + Len(store[id].attachments) + 1]_vars

\* the access grants a payload asks for: VIEW grants for an array of user
\* ids, the objects themselves otherwise
GrantsAsked(v) ==
  IF v.ofStrings
    THEN [i \in DOMAIN v.items |-> [userId |-> v.items[i], access |-> "VIEW"]]
    ELSE v.items

\* C32: a successful update changes only the whitelisted fields the request
\* supplies (budgetCap, budgetOverride, entries, access grants, status, and
\* ownerId) plus version and updatedAt; id, createdAt, comments, attachments,
\* metadata and every whitelisted field the request does not supply keep
\* the values stored just before the write, and a version, comments or
\* createdAt of the request body is not written into the report.
C32_UpdateWritesWhitelistOnly ==
  (IsUpdate /\ Succeeded) =>
    LET p == last.prev[1]
        s == last.stored[1]
        r == last.req
    IN /\ s.id = p.id
       /\ s.createdAt = p.createdAt
       /\ s.comments = p.comments
       /\ s.attachments = p.attachments
       /\ s.metadata = p.metadata
       /\ s.status = IF r.status = None THEN p.status ELSE r.status[1]
       /\ s.entries = IF r.entries = None THEN p.entries ELSE r.entries[1]
       /\ s.budgetCap = IF r.budgetCap = None THEN p.budgetCap ELSE r.budgetCap[1]
       /\ s.budgetOverride
            = IF r.budgetOverride = None THEN p.budgetOverride ELSE r.budgetOverride[1]
       /\ s.ownerId = IF r.ownerId = None THEN p.ownerId ELSE r.ownerId[1]
       /\ s.viewers = IF r.viewers = None THEN p.viewers ELSE GrantsAsked(r.viewers[1])
       /\ s.version = p.version + 1
       /\ s.updatedAt = now

\* an update whose body carries a budgetCap together with an empty comments
\* array and a createdAt has succeeded: the cap is the new one, the seeded
\* comment and the creation time are still stored
C32_Witness ==
  /\ IsUpdate /\ Succeeded
  /\ last.req.comments = Some(<<>>)
  /\ last.req.createdAt = Some(99)
  /\ last.stored[1].budgetCap = 5000
  /\ last.prev[1].budgetCap # 5000
  /\ last.stored[1].comments # <<>>
  /\ last.stored[1].createdAt = 0

\* an update is answered in this step with a failure
UpdateFails ==
  /\ last = NoLast
  /\ last'.op = "update"
  /\ last'.outcome # "ok"

\* C34: every update that returns a failure (NotFound, Forbidden,
\* MissingVersion, BudgetExceeded, VersionMismatch) leaves the whole store
\* as it was: no field of any report, version and updatedAt included,
\* differs after the step in which the call fails.
C34_FailedUpdateWritesNothing ==
  [][UpdateFails => (store' = store /\ now' = now /\ ~last'.wrote)]_vars

\* an update has been refused for the budget or for a stale version, and
\* the store holds the reports as they were seeded
C34_Witness ==
  /\ IsUpdate
  /\ last.outcome \in {"BudgetExceeded", "VersionMismatch"}
  /\ IsSome(last.prev)
  /\ store[last.id] = last.prev[1]
  /\ store = SeedReports

\* the call on record is a create by a caller with role USER
UserCreate == IsCreate /\ Role(last.caller) = "USER"

\* the create request on record has a title and a budgetCap
CreateWellFormed == IsSome(last.req.title) /\ IsSome(last.req.budgetCap)

\* C36: a caller with role USER creates reports only for themselves: a
\* create request with a title and a budgetCap whose ownerId is given and
\* is not the caller's id is rejected with Forbidden and stores nothing;
\* when ownerId is not given the stored ownerId is the caller's id; every
\* report created by a USER is owned by that USER.
C36_UserCreatesForSelf ==
  UserCreate =>
    /\ (CreateWellFormed /\ IsSome(last.req.ownerId)
         /\ last.req.ownerId[1] # last.caller)
        => (last.outcome = "Forbidden" /\ ~last.wrote /\ last.stored = None)
    /\ (Succeeded /\ ~IsSome(last.req.ownerId))
        => last.stored[1].ownerId = last.caller
    /\ Succeeded
        => (last.stored[1].ownerId = last.caller
            /\ last.result[1].ownerId = last.caller)

\* user2 has asked for a report owned by user1 and was refused; the store
\* holds the seeded reports only
C36_Witness ==
  /\ UserCreate /\ CreateWellFormed
  /\ last.caller = "user2"
  /\ last.req.ownerId = Some("user1")
  /\ last.outcome = "Forbidden"
  /\ DOMAIN store = DOMAIN SeedReports

\* C36 as stated: every create request of a USER whose ownerId is given and
\* differs from the caller's id is rejected with Forbidden.
C36_OtherOwnerAlwaysForbidden ==
  (UserCreate /\ IsSome(last.req.ownerId) /\ last.req.ownerId[1] # last.caller)
    => last.outcome = "Forbidden"

---------------------------------------------------------------------------
(* Status changes: updateReport on reports of every status *)

\* ReportStatus
Statuses == {"DRAFT", "SUBMITTED", "APPROVED", "REJECTED"}

\* the seeded store with the first report in any status, under or over its
\* budget cap, with or without the override
InitStatus ==
  /\ store \in {[SeedReports EXCEPT ![1].status = st, ![1].entries = es,
                                    ![1].budgetOverride = ov] :
                   st \in Statuses,
                   es \in {<<Entry(600), Entry(800), Entry(300)>>, BigEntries},
                   ov \in {"false", "true"}}
  /\ now = 0
  /\ calls = [s \in Slots |-> IdleCall]
  /\ ops = 0
  /\ last = NoLast
  /\ log = <<>>
  /\ jobs = <<>>

\* update payloads that ask for a status
StatusRequests ==
  { [NoReq EXCEPT !.status = Some(st), !.entries = es, !.budgetOverride = ov] :
      st \in Statuses,
      es \in {None, Some(BigEntries), Some(SmallEntries)},
      ov \in {None, Some("true"), Some("false")} }

\* updateReport run from its entry to its response with no other call in
\* between
UpdateStatus ==
  /\ last = NoLast
  /\ ops < MaxOps
  /\ \E id \in {1, 2}, caller \in Users, req \in StatusRequests, v \in VersionInputs :
       LET ev == ExpectedVersion(v[1], v[2])
       IN \E r \in {UpdateReport(store, findById(store, id), id, caller, req, ev,
                                  now + 1)} :
          /\ store' = r.store
          /\ now' = IF r.outcome = "ok" THEN now + 1 ELSE now
          /\ last' = [call |-> ops + 1, op |-> "update", caller |-> caller, id |-> id,
                      req |-> req, expectedVersion |-> ev,
                      existing |-> findById(store, id), prev |-> findById(store, id),
                      outcome |-> r.outcome, result |-> r.result,
                      stored |-> findById(r.store, id), wrote |-> r.store # store,
                      body |-> Some(ResponseBody(r.outcome, r.result))]
          /\ log' = IF r.outcome = "ok"
                      THEN Append(log, [id |-> id, expected |-> Coalesce(ev, 0),
                                        prior |-> store[id].version,
                                        call |-> ops + 1])
                      ELSE log
  /\ ops' = ops + 1
  /\ UNCHANGED <<calls, jobs>>

NextStatus ==
  \/ UpdateStatus
  \/ Respond

SpecStatus == InitStatus /\ [][NextStatus]_vars

\* the call on record is an update by the owner of the report, with the
\* stored version as expected version, asking for a status, and permitted
\* to the caller's role (a USER neither sets budgetOverride to true nor
\* names an ownerId)
OwnerStatusUpdate ==
  /\ IsUpdate
  /\ IsSome(last.prev)
  /\ last.caller = last.prev[1].ownerId
  /\ last.expectedVersion = Some(last.prev[1].version)
  /\ IsSome(last.req.status)
  /\ CallerAllowed

\* C33: no status transition table is enforced: for every pair of statuses
\* (s, t), an update by the owner with the correct expected version asking
\* for status t on a report stored with status s succeeds and stores t,
\* except a DRAFT to SUBMITTED request whose post-merge total is over the
\* post-merge cap without override, which is BudgetExceeded; DRAFT to
\* APPROVED succeeds for any entries total.
C33_AnyStatusToAnyStatus ==
  OwnerStatusUpdate =>
    IF /\ last.prev[1].status = "DRAFT"
       /\ last.req.status[1] = "SUBMITTED"
       /\ PostMergeOverBudget(last.prev[1], last.req)
      THEN last.outcome = "BudgetExceeded"
      ELSE /\ last.outcome = "ok"
           /\ last.stored[1].status = last.req.status[1]

\* a DRAFT report whose entries are over its cap, with no override, is
\* taken straight to APPROVED by its owner
C33_Witness ==
  /\ OwnerStatusUpdate /\ Succeeded
  /\ last.prev[1].status = "DRAFT"
  /\ last.stored[1].status = "APPROVED"
  /\ SumAmounts(last.stored[1].entries) > last.stored[1].budgetCap
  /\ last.stored[1].budgetOverride = "false"

---------------------------------------------------------------------------
(* Properties of getReport and the view shaper (SpecView) *)

\* the options of the view on record
LastOptions == last.req.query[1]

\* a rich view with the entries section has been returned
EntriesShown ==
  /\ last.op \in {"get", "shape"}
  /\ Succeeded
  /\ ~last.result[1].compact
  /\ IsSome(last.result[1].entries)

\* the report's entries after the entriesMinAmount filter and the
\* entriesSort ordering of the view on record
SortedFilteredEntries ==
  LET es == last.stored[1].entries
      kept == IF IsSome(LastOptions.entriesMinAmount)
                THEN SelectSeq(es, LAMBDA e : e.amount >= LastOptions.entriesMinAmount[1])
                ELSE es
  IN IF IsSome(LastOptions.entriesSort)
       THEN SortEntries(kept, LastOptions.entriesSort[1])
       ELSE kept

\* C19: a view requested from getReport with offset = o and limit = l, the
\* entries section included, returns exactly
\* sortedFilteredEntries[o*l : o*l+l].
C19_PageIsSliceAtOffset ==
  ( /\ EntriesShown
    /\ last.op = "get"
    /\ IsSome(LastOptions.offset) /\ IsSome(LastOptions.limit) )
  => LET o == LastOptions.offset[1]
         l == LastOptions.limit[1]
     IN last.result[1].entries[1] = Slice(SortedFilteredEntries, o * l, o * l + l)

\* C20: whenever a view includes the entries section, pagination metadata
\* is attached and its total is the number of the report's entries with
\* amount >= entriesMinAmount (all of them when no minimum is given),
\* whatever the sort, the page and the page size.
C20_TotalIsFilteredCount ==
  EntriesShown =>
    /\ IsSome(last.result[1].entriesPagination)
    /\ last.result[1].entriesPagination[1].total =
         Cardinality({i \in DOMAIN last.stored[1].entries :
                        IsSome(LastOptions.entriesMinAmount)
                          => last.stored[1].entries[i].amount
                               >= LastOptions.entriesMinAmount[1]})

\* three entries of which two reach the minimum, shown one to a page: the
\* second page holds one entry and the total is two
C20_Witness ==
  /\ EntriesShown
  /\ Len(last.stored[1].entries) = 3
  /\ LastOptions.entriesMinAmount = Some(300)
  /\ LastOptions.entriesSort = Some("amount_desc")
  /\ LastOptions.entriesPage = Some(2)
  /\ LastOptions.entriesSize = Some(1)
  /\ Len(last.result[1].entries[1]) = 1
  /\ last.result[1].entriesPagination[1].total = 2

\* the report's entries that reach the entriesMinAmount of the view on
\* record, in insertion order
KeptEntries ==
  IF IsSome(LastOptions.entriesMinAmount)
    THEN SelectSeq(last.stored[1].entries,
                   LAMBDA e : e.amount >= LastOptions.entriesMinAmount[1])
    ELSE last.stored[1].entries

\* the time of an entry, an entry without incurredAt counting as time zero
TimeOf(e) == IF e.incurredAt = None THEN 0 ELSE e.incurredAt[1]

\* entry a comes strictly before entry b in the order named by srt
KeyBefore(a, b, srt) ==
  \/ srt = "amount_asc" /\ a.amount < b.amount
  \/ srt = "amount_desc" /\ a.amount > b.amount
  \/ srt = "date_asc" /\ TimeOf(a) < TimeOf(b)
  \/ srt = "date_desc" /\ TimeOf(a) > TimeOf(b)

\* the place of the i-th kept entry in a stable sort by srt: after every
\* entry that comes strictly before it and after the earlier entries that
\* tie with it
StableRank(i, srt) ==
  1 + Cardinality({j \in DOMAIN KeptEntries :
                     \/ KeyBefore(KeptEntries[j], KeptEntries[i], srt)
                     \/ /\ j < i
                        /\ ~KeyBefore(KeptEntries[i], KeptEntries[j], srt)})

\* the page of the view on record holds every kept entry
WholeListShown ==
  /\ EntriesShown
  /\ Len(last.result[1].entries[1]) = Len(KeptEntries)

\* C21: with entriesSort given, the kept entries are shown ordered by the
\* named key and direction (amount or incurredAt, ascending or descending);
\* entries with equal keys keep their insertion order, and an entry without
\* incurredAt is ordered as time zero.  Without entriesSort the entries are
\* shown in insertion order.
C21_StableSortByKey ==
  WholeListShown =>
    IF IsSome(LastOptions.entriesSort)
      THEN \A i \in DOMAIN KeptEntries :
             last.result[1].entries[1][StableRank(i, LastOptions.entriesSort[1])]
               = KeptEntries[i]
      ELSE last.result[1].entries[1] = KeptEntries

\* sorted by date ascending, the entry without incurredAt comes first and
\* the two entries of time 1 keep their insertion order
C21_Witness ==
  /\ WholeListShown
  /\ LastOptions.entriesSort = Some("date_asc")
  /\ last.stored[1].entries =
       << [amount |-> 500, incurredAt |-> Some(1)],
          [amount |-> 300, incurredAt |-> None],
          [amount |-> 300, incurredAt |-> Some(1)] >>
  /\ last.result[1].entries[1] =
       << [amount |-> 300, incurredAt |-> None],
          [amount |-> 500, incurredAt |-> Some(1)],
          [amount |-> 300, incurredAt |-> Some(1)] >>

\* a rich (non-compact) view has been returned
RichViewShown ==
  /\ last.op \in {"get", "shape"}
  /\ Succeeded
  /\ ~last.result[1].compact

\* C22: in a non-compact view each of the sections entries, comments,
\* metadata and metrics is present exactly when its name is in include
\* (all four when include is not given); a section that is not included is
\* absent from the view.
C22_SectionPresentIffIncluded ==
  RichViewShown =>
    /\ IsSome(last.result[1].entries) <=> "entries" \in IncludeSet(LastOptions)
    /\ IsSome(last.result[1].comments) <=> "comments" \in IncludeSet(LastOptions)
    /\ IsSome(last.result[1].metadata) <=> "metadata" \in IncludeSet(LastOptions)
    /\ IsSome(last.result[1].metrics) <=> "metrics" \in IncludeSet(LastOptions)

\* a view has been returned for a request with compact set
CompactRequested ==
  /\ last.op \in {"get", "shape"}
  /\ Succeeded
  /\ LastOptions.compact

\* C23: with compact set the view is the flat summary of the report (id,
\* ownerId, status, the projected metrics and the metadata) whatever include
\* holds: it carries none of entries, comments, attachments and access
\* grants, and no pagination metadata.
C23_CompactIsFlatSummary ==
  CompactRequested =>
    /\ last.result[1].compact
    /\ last.result[1].id = last.stored[1].id
    /\ last.result[1].ownerId = last.stored[1].ownerId
    /\ last.result[1].status = last.stored[1].status
    /\ last.result[1].totalAmount = SumAmounts(last.stored[1].entries)
    /\ last.result[1].isOverBudget
         = (SumAmounts(last.stored[1].entries) > last.stored[1].budgetCap)
    /\ last.result[1].entryCount = Some(Len(last.stored[1].entries))
    /\ IsSome(last.result[1].averageEntry)
    /\ IsSome(last.result[1].trend)
    /\ last.result[1].metadataSummary = Some("seed")
    /\ ~IsSome(last.result[1].entries)
    /\ ~IsSome(last.result[1].comments)
    /\ ~IsSome(last.result[1].attachments)
    /\ ~IsSome(last.result[1].viewers)
    /\ ~IsSome(last.result[1].entriesPagination)

\* a compact view of a report with entries, requested with the entries
\* section included, carries the entry count and no entries
C23_Witness ==
  /\ CompactRequested
  /\ LastOptions.include = Some({"entries", "metadata"})
  /\ last.stored[1].entries # <<>>
  /\ last.result[1].entryCount = Some(Len(last.stored[1].entries))
  /\ ~IsSome(last.result[1].entries)
  /\ ~IsSome(last.result[1].entriesPagination)

\* a view of a stored report has been built
ViewBuilt ==
  /\ last.op \in {"get", "shape"}
  /\ Succeeded

AskedPage == IF LastOptions.entriesPage = None THEN 1 ELSE LastOptions.entriesPage[1]

AskedSize == IF LastOptions.entriesSize = None THEN 25 ELSE LastOptions.entriesSize[1]

\* the page index and the page size after clamping from below
UsedPage == IF AskedPage < 1 THEN 1 ELSE AskedPage

UsedSize == IF AskedSize < 1 THEN 1 ELSE AskedSize

\* the number of kept entries that fall on the page used
OnUsedPage ==
  LET before == (UsedPage - 1) * UsedSize
      left == Len(KeptEntries) - before
  IN IF left <= 0 THEN 0 ELSE IF left > UsedSize THEN UsedSize ELSE left

\* the page index asked for is not the index of a page of the kept entries
PageOutOfRange ==
  \/ AskedPage < 1
  \/ AskedPage > 1 /\ (AskedPage - 1) * UsedSize >= Len(KeptEntries)

\* C25: shaping a view never fails on its pagination parameters: a page
\* size below 1, a negative one included, is clamped to 1, a page index
\* below 1 is clamped to the first page, a page index past the last page is
\* kept and shows no entries, and the pagination metadata reports the page
\* index and the page size used.
C25_PaginationClamped ==
  /\ last.op = "shape" => last.outcome = "ok"
  /\ EntriesShown =>
       /\ last.result[1].entriesPagination[1].page = UsedPage
       /\ last.result[1].entriesPagination[1].size = UsedSize
       /\ Len(last.result[1].entries[1]) = OnUsedPage

\* a negative page size and a page index of zero: one entry of three is
\* shown, as page 1 of size 1
C25_Witness ==
  /\ EntriesShown
  /\ LastOptions.entriesSize = Some(-1)
  /\ LastOptions.entriesPage = Some(0)
  /\ Len(KeptEntries) = 3
  /\ Len(last.result[1].entries[1]) = 1
  /\ last.result[1].entriesPagination[1].page = 1
  /\ last.result[1].entriesPagination[1].size = 1

\* C25 as stated: every out-of-range page index is clamped to the first
\* page.
C25_OutOfRangePageIsFirstPage ==
  (EntriesShown /\ PageOutOfRange) =>
    /\ last.result[1].entriesPagination[1].page = 1
    /\ Len(KeptEntries) > 0 => Len(last.result[1].entries[1]) > 0

\* the trend the view on record reports: a field of the compact summary, a
\* field of the metrics of the rich view
ShownTrend ==
  IF last.result[1].compact THEN last.result[1].trend[1]
  ELSE last.result[1].metrics[1].trend

\* the place of the i-th stored entry when the entries are ordered by
\* incurredAt ascending, an entry without incurredAt first and ties in
\* insertion order
DateRank(i) ==
  LET es == last.stored[1].entries
  IN 1 + Cardinality({j \in DOMAIN es :
                        \/ TimeOf(es[j]) < TimeOf(es[i])
                        \/ j < i /\ TimeOf(es[j]) = TimeOf(es[i])})

\* the amount of the entry at place k of that order
AmountAtRank(k) ==
  LET es == last.stored[1].entries
  IN es[CHOOSE i \in DOMAIN es : DateRank(i) = k].amount

\* C27: the trend of a view is unknown when the report has fewer than two
\* entries; otherwise the entries are ordered by incurredAt ascending
\* (missing incurredAt earliest, ties in insertion order) and the trend is
\* increasing, decreasing or stable as the last amount is above, below or
\* equal to the one before it.
C27_TrendFromLastTwoByDate ==
  ViewBuilt =>
    LET n == Len(last.stored[1].entries)
    IN IF n < 2 THEN ShownTrend = "unknown"
       ELSE /\ AmountAtRank(n) > AmountAtRank(n - 1) <=> ShownTrend = "increasing"
            /\ AmountAtRank(n) < AmountAtRank(n - 1) <=> ShownTrend = "decreasing"
            /\ AmountAtRank(n) = AmountAtRank(n - 1) <=> ShownTrend = "stable"

\* the entry without incurredAt was inserted last and has the lower amount:
\* it is ordered first, and the trend is increasing
C27_Witness ==
  /\ ViewBuilt
  /\ last.stored[1].entries =
       << [amount |-> 500, incurredAt |-> Some(1)],
          [amount |-> 300, incurredAt |-> None] >>
  /\ ShownTrend = "increasing"

\* the caller of the call on record owns report r or holds a grant on it
OwnedOrGranted(r) ==
  \/ r.ownerId = last.caller
  \/ \E i \in DOMAIN r.viewers : r.viewers[i].userId = last.caller

\* the ids of the reports a list answer shows
ListedIds == {last.result[1][i].id : i \in DOMAIN last.result[1]}

---------------------------------------------------------------------------
(* Properties of the synchronous controller (SpecJobs) *)

\* C26: wherever the isOverBudget metric is computed it is true exactly
\* when the sum of the entries' amounts is above budgetCap, whatever
\* budgetOverride is; here for the metrics the view job stores on a report.
C26_OverBudgetIgnoresOverride ==
  \A id \in DOMAIN store :
    IsSome(store[id].metrics) =>
      store[id].metrics[1].isOverBudget
        = (SumAmounts(store[id].entries) > store[id].budgetCap)

\* the metrics of the answer on record: fields of the compact summary,
\* or the metrics section of the rich view
ShownMetrics ==
  LET v == last.body[1]
  IN IF v.compact
       THEN [totalAmount |-> v.totalAmount, isOverBudget |-> v.isOverBudget,
             entryCount |-> v.entryCount[1], averageEntry |-> v.averageEntry[1]]
       ELSE [totalAmount |-> v.metrics[1].totalAmount,
             isOverBudget |-> v.metrics[1].isOverBudget,
             entryCount |-> v.metrics[1].entryCount,
             averageEntry |-> v.metrics[1].averageEntry]

\* C28: after any sequence of creates, updates and view jobs, the metrics
\* of a view (the answer of a create, an update or a read) are the
\* projection of the entries stored when the view is built: totalAmount
\* their sum, entryCount their number, averageEntry the quotient and 0 with
\* no entries, isOverBudget the sum compared with the cap; they are not the
\* metrics a job stored on the report earlier.
C28_MetricsAreOfStoredEntries ==
  Succeeded =>
    LET es == last.stored[1].entries
    IN /\ ShownMetrics.totalAmount = SumAmounts(es)
       /\ ShownMetrics.entryCount = Len(es)
       /\ ShownMetrics.averageEntry
            = IF Len(es) = 0 THEN <<0, 1>> ELSE <<SumAmounts(es), Len(es)>>
       /\ ShownMetrics.isOverBudget = (SumAmounts(es) > last.stored[1].budgetCap)

\* a report is read whose stored metrics, left by the job of an earlier
\* update, differ from the metrics the view shows
C28_Witness ==
  /\ Succeeded
  /\ last.op = "get"
  /\ IsSome(last.stored[1].metrics)
  /\ last.stored[1].metrics[1].isOverBudget # ShownMetrics.isOverBudget
  /\ ShownMetrics.totalAmount = SumAmounts(last.stored[1].entries)

\* an UPDATE_REPORT_VIEW job runs in this step
ViewJobRuns == last = NoLast /\ last'.op = "job"

\* report b is report a but for its metrics, version and updatedAt
SameButMetrics(a, b) ==
  [a EXCEPT !.metrics = None, !.version = 0, !.updatedAt = 0]
    = [b EXCEPT !.metrics = None, !.version = 0, !.updatedAt = 0]

C5_ReturnedVersionIsStored ==
  Succeeded => last.result[1].version = last.stored[1].version

============================================================================
